---- MODULE Spec2Model ----
(***************************************************************************)
(* Windows service manager (sky22333/services): the registry of managed    *)
(* services (manager.go), its status cache (cache.go), the persisted       *)
(* snapshot, and the OS service database the manager drives through the    *)
(* service control manager (SCM).                                          *)
(***************************************************************************)
EXTENDS Integers, Sequences, FiniteSets, TLC

(* ---------------------------------------------------------------------- *)
(* Bounds of the model                                                     *)
(* ---------------------------------------------------------------------- *)
\* last second of the wall clock (time.Now().Unix())
MaxNow == 6
\* the callers stop creating services once the registry holds this many
MaxServices == 1
\* process ids the OS hands out are 1..MaxPid
MaxPid == 1
\* `go wsm.saveServices()` goroutines that may be pending at once
MaxPendingSaves == 1
\* the history counts how often an id was handed out up to this number
MaxIssues == 2
\* control requests the OS sends to one wrapper supervisor
MaxRequests == 3
\* passes of the waitForServiceState loop that fit before its deadline
MaxPolls == 2

(* ---------------------------------------------------------------------- *)
(* Program constants                                                       *)
(* ---------------------------------------------------------------------- *)
\* ServiceStatusCache.ttl, in seconds
TTL == 5

(* ---------------------------------------------------------------------- *)
(* Values                                                                  *)
(* ---------------------------------------------------------------------- *)
Procs == {"ui1", "ui2"}
AutoProc == "auto"
AllProcs == Procs \cup {AutoProc}
NoProc == "none"

PIDs == 1..MaxPid

\* characters generateServiceName keeps; every other rune becomes "_"
AlnumChars == {"a", "b", "Z", "7"}

\* display names, as sequences of characters
Names == { <<"a", " ">>, <<"a", "-">> }

\* paths, as sequences of path elements
RunExe == <<"C:", "srv", "run.exe">>
BadExe == <<"C:", "notes.txt">>
GoneExe == <<"C:", "gone.exe">>
WorkDir == <<"D:", "work">>
SelfExe == <<"C:", "wsm", "services.exe">>

\* files present on disk (os.Stat succeeds)
OnDisk == {RunExe, BadExe, SelfExe}
\* files exec.Cmd.Start can launch
Spawnable == {RunExe, SelfExe}

\* creation inputs (ServiceConfig)
Configs ==
  { [name |-> <<"a", " ">>, exePath |-> RunExe,  args |-> "--sleep", workingDir |-> <<>>],
    [name |-> <<"a", "-">>, exePath |-> BadExe,  args |-> "",        workingDir |-> WorkDir],
    [name |-> <<"a", " ">>, exePath |-> GoneExe, args |-> "",        workingDir |-> <<>>] }
NoCfg == [name |-> <<>>, exePath |-> <<>>, args |-> "", workingDir |-> <<>>]

\* OS service states (svc.State)
OSStates == {"Stopped", "StartPending", "StopPending", "Running",
             "ContinuePending", "PausePending", "Paused"}

\* failures of the environment an operation can meet
Faults == {"none", "connect", "open", "query", "create", "exe", "param",
           "image", "appdir", "start", "control", "delete", "config", "update",
           "deadline"}

(* ---------------------------------------------------------------------- *)
(* Pure functions                                                          *)
(* ---------------------------------------------------------------------- *)
\* strings.Map in generateServiceName
CleanName(displayName) ==
  [i \in DOMAIN displayName |->
     IF displayName[i] \in AlnumChars THEN displayName[i] ELSE "_"]

\* fmt.Sprintf("WSM_%s_%d", cleanName, time.Now().Unix())
generateServiceName(displayName, t) ==
  [clean |-> CleanName(displayName), ts |-> t]

ServiceIds == { generateServiceName(n, t) : n \in Names, t \in 0..MaxNow }
NoId == [clean |-> <<>>, ts |-> 0]

\* filepath.Dir
Dir(path) ==
  IF Len(path) <= 1 THEN <<".">> ELSE SubSeq(path, 1, Len(path) - 1)

\* CreateService taking the working directory as given
GivenWorkingDir(cfg) == cfg.workingDir

\* workingDir defaulting in CreateService
DefaultedWorkingDir(cfg) ==
  IF cfg.workingDir = <<>> THEN Dir(cfg.exePath) ELSE cfg.workingDir

\* the command line scm.CreateService is first given
TargetCommandLine(cfg) == [exe |-> cfg.exePath, args |-> cfg.args, wrapperOf |-> NoId]
\* fmt.Sprintf(`"%s" --service-wrapper %s`, currentExe, serviceName)
WrapperCommandLine(id) == [exe |-> SelfExe, args |-> "--service-wrapper", wrapperOf |-> id]

\* the Parameters written by storeServiceConfigInRegistry
StoredParams(cfg, wd) ==
  [k \in ({"ExePath"} \cup (IF cfg.args # "" THEN {"Args"} ELSE {})
                      \cup (IF wd # <<>> THEN {"WorkingDir"} ELSE {})) |->
     CASE k = "ExePath" -> cfg.exePath
       [] k = "Args" -> cfg.args
       [] k = "WorkingDir" -> wd]

\* a status query that keeps the process id of a start-pending service
StatusOfStateKeepingPid(state, processId) ==
  CASE state = "Running"      -> [status |-> "running",  pid |-> processId]
    [] state = "Stopped"      -> [status |-> "stopped",  pid |-> 0]
    [] state = "StartPending" -> [status |-> "starting", pid |-> processId]
    [] state = "StopPending"  -> [status |-> "stopping", pid |-> processId]
    [] OTHER                  -> [status |-> "error",    pid |-> 0]

\* the switch of getServiceRealTimeStatus
StatusOfState(state, processId) ==
  CASE state = "Running"      -> [status |-> "running",  pid |-> processId]
    [] state = "Stopped"      -> [status |-> "stopped",  pid |-> 0]
    [] state = "StartPending" -> [status |-> "starting", pid |-> 0]
    [] state = "StopPending"  -> [status |-> "stopping", pid |-> processId]
    [] OTHER                  -> [status |-> "error",    pid |-> 0]

Min(a, b) == IF a < b THEN a ELSE b

\* function update helpers for maps with a growing key set
Put(m, k, v) == [x \in DOMAIN m \cup {k} |-> IF x = k THEN v ELSE m[x]]
Drop(m, k) == [x \in DOMAIN m \ {k} |-> m[x]]
EmptyMap == [x \in {} |-> 0]

\* wsm.dataFile before the first save
NoFile == [exists |-> FALSE, data |-> {}]

(* ---------------------------------------------------------------------- *)
(* State                                                                   *)
(* ---------------------------------------------------------------------- *)
VARIABLES
  services,     \* wsm.services: id -> Service
  cache,        \* wsm.statusCache.cache: id -> [status, pid, age]
  snapshot,     \* contents of wsm.dataFile
  mutex,        \* wsm.mutex: [writer, readers]
  cacheMutex,   \* wsm.statusCache.mutex: [writer, readers, visit]
  osdb,         \* OS service database: id -> [state, pid, startType, imagePath, params]
  pc,           \* where each goroutine is
  loc,          \* its locals
  tasks,        \* ids of the detached auto-start goroutines not yet in StartService
  savePending,  \* detached saveServices goroutines not yet run
  now,          \* wall clock, seconds
  returned,     \* results returned by the latest step
  emitted,      \* events emitted by the latest step
  scmLog,       \* SCM and registry calls made by the latest step
  issued,       \* history: id -> how often a successful CreateService returned it
  stoppedOK,    \* history: ids whose StopService returned success, no start since
  lastSet,      \* history: id -> what the latest Set stored, when, and its sweeps
  osSince,      \* history: id -> seconds since its OS state or pid last changed
  esw,          \* EmbeddedServiceWrapper: [config, process, isRunning]
  execute,      \* Execute of the wrapper: [pc, exitCode]
  monitor,      \* the monitorTargetProcess goroutine: "none", "wait", "done"
  requests,     \* r: control requests the wrapper has not read yet
  statuses,     \* s: statuses the wrapper has reported to the OS, in order
  delivered     \* history: control requests sent to the wrapper, in order

vars == <<services, cache, snapshot, mutex, cacheMutex, osdb, pc, loc, tasks, savePending,
          now, returned, emitted, scmLog, issued, stoppedOK, lastSet, osSince,
          esw, execute, monitor, requests, statuses, delivered>>

\* the cache lock with nobody holding it and no getServiceRealTimeStatus
\* under way
CacheUnlocked ==
  [writer |-> NoProc, readers |-> {}, visit |-> [p \in Procs |-> NoId]]

NoLoc == [id |-> NoId, cfg |-> NoCfg, todo |-> {}, polled |-> FALSE, polls |-> 0]

Init ==
  /\ services = EmptyMap
  /\ cache = EmptyMap
  /\ snapshot = NoFile
  /\ mutex = [writer |-> NoProc, readers |-> {}]
  /\ cacheMutex = CacheUnlocked
  /\ osdb = EmptyMap
  /\ pc = [p \in AllProcs |-> "idle"]
  /\ loc = [p \in AllProcs |-> NoLoc]
  /\ tasks = {}
  /\ savePending = 0
  /\ now = 0
  /\ returned = <<>>
  /\ emitted = <<>>
  /\ scmLog = <<>>
  /\ issued = EmptyMap
  /\ stoppedOK = {}
  /\ lastSet = EmptyMap
  /\ osSince = EmptyMap
  /\ esw = [config |-> NoCfg, process |-> "none", isRunning |-> FALSE]
  /\ execute = [pc |-> "off", exitCode |-> 0]
  /\ monitor = "none"
  /\ requests = <<>>
  /\ statuses = <<>>
  /\ delivered = <<>>

(* ---------------------------------------------------------------------- *)
(* Helpers of the manager                                                  *)
(* ---------------------------------------------------------------------- *)
\* sync.RWMutex: Lock needs no holder at all, RLock needs no writer
\* a Lock that would not wait for the readers to leave
CanLockBesideReaders == mutex.writer = NoProc

CanLock == mutex.writer = NoProc /\ mutex.readers = {}
CanRLock == mutex.writer = NoProc

Ret(p, op, id, err) ==
  <<[op |-> op, id |-> id, err |-> err, list |-> {}]>>

\* the handler leaves: pc back to idle, locals dropped
Leave(p) ==
  /\ pc' = [pc EXCEPT ![p] = "idle"]
  /\ loc' = [loc EXCEPT ![p] = NoLoc]

\* a call that takes the write lock and returns in the same step
\* (defer wsm.mutex.Unlock())
ReturnAtOnce(p) == Leave(p) /\ UNCHANGED mutex

\* a return that forgets the deferred Unlock
ReturnHoldingLock(p) == Leave(p) /\ UNCHANGED mutex

\* a call that returns from inside its critical section
ReturnUnlock(p) == Leave(p) /\ mutex' = [mutex EXCEPT !.writer = NoProc]

\* the step keeps the write lock and goes on at label l
GoOn(p, l, newloc) ==
  /\ pc' = [pc EXCEPT ![p] = l]
  /\ loc' = [loc EXCEPT ![p] = newloc]
  /\ mutex' = [mutex EXCEPT !.writer = p]

\* the zero time.Time, and a Service with every field zero
ZeroTime == 0

ZeroService ==
  [id |-> NoId, name |-> <<>>, exePath |-> <<>>, args |-> <<>>,
   workingDir |-> <<>>, status |-> "", pid |-> 0, autoStart |-> FALSE,
   createdAt |-> ZeroTime, updatedAt |-> ZeroTime]

\* time.Time.MarshalJSON writes the instant as RFC 3339 text, and
\* time.Time.UnmarshalJSON reads it back
FormatRFC3339(t) == <<"T", t>>

ParseRFC3339(text) == text[2]

\* a Service whose autoStart field is not written
MarshalServiceSansAutoStart(service) ==
  << <<"id", service.id>>, <<"name", service.name>>,
     <<"exePath", service.exePath>>, <<"args", service.args>>,
     <<"workingDir", service.workingDir>>, <<"status", service.status>>,
     <<"pid", service.pid>>,
     <<"createdAt", FormatRFC3339(service.createdAt)>>,
     <<"updatedAt", FormatRFC3339(service.updatedAt)>> >>

\* encoding/json on a *Service: one member per field, under its json tag
MarshalService(service) ==
  << <<"id", service.id>>, <<"name", service.name>>,
     <<"exePath", service.exePath>>, <<"args", service.args>>,
     <<"workingDir", service.workingDir>>, <<"status", service.status>>,
     <<"pid", service.pid>>, <<"autoStart", service.autoStart>>,
     <<"createdAt", FormatRFC3339(service.createdAt)>>,
     <<"updatedAt", FormatRFC3339(service.updatedAt)>> >>

\* json.MarshalIndent(wsm.services, "", "  "): one member per map key
MarshalIndent(reg) ==
  { [key |-> id, value |-> MarshalService(reg[id])] : id \in DOMAIN reg }

\* the member of a JSON object under a name, or the field's zero value
Member(object, name, zero) ==
  IF \E i \in 1..Len(object) : object[i][1] = name
  THEN object[CHOOSE i \in 1..Len(object) : object[i][1] = name][2]
  ELSE zero

UnmarshalService(object) ==
  [id |-> Member(object, "id", ZeroService.id),
   name |-> Member(object, "name", ZeroService.name),
   exePath |-> Member(object, "exePath", ZeroService.exePath),
   args |-> Member(object, "args", ZeroService.args),
   workingDir |-> Member(object, "workingDir", ZeroService.workingDir),
   status |-> Member(object, "status", ZeroService.status),
   pid |-> Member(object, "pid", ZeroService.pid),
   autoStart |-> Member(object, "autoStart", ZeroService.autoStart),
   createdAt |-> ParseRFC3339(Member(object, "createdAt", FormatRFC3339(ZeroTime))),
   updatedAt |-> ParseRFC3339(Member(object, "updatedAt", FormatRFC3339(ZeroTime)))]

\* json.Unmarshal(data, &wsm.services): the map is reused, a key of the
\* document gets a new Service, the other entries of the map stay
Unmarshal(data, reg) ==
  [id \in DOMAIN reg \cup {m.key : m \in data} |->
     IF \E m \in data : m.key = id
     THEN UnmarshalService((CHOOSE m \in data : m.key = id).value)
     ELSE reg[id]]

\* json.MarshalIndent(wsm.services) + os.WriteFile
saveServices(reg) == [exists |-> TRUE, data |-> MarshalIndent(reg)]

\* loadServices: nothing to do without the file, else the document is decoded
\* into the map
loadServices(file, reg) ==
  IF ~file.exists THEN reg ELSE Unmarshal(file.data, reg)

\* runtime.EventsEmit(ctx, "service-status-changed", {serviceId, status, pid})
emitServiceStatusChanged(id, status, pid) ==
  <<[type |-> "service-status-changed", serviceId |-> id, status |-> status,
     pid |-> pid, services |-> EmptyMap]>>

\* a services-updated event put together before the registry change
emitServicesUpdatedEarly(reg) ==
  <<[type |-> "services-updated", serviceId |-> NoId, status |-> "",
     pid |-> 0, services |-> services]>>

\* runtime.EventsEmit(ctx, "services-updated", services)
emitServicesUpdated(reg) ==
  <<[type |-> "services-updated", serviceId |-> NoId, status |-> "",
     pid |-> 0, services |-> reg]>>

\* a Get that lets an entry go one second early
CacheFoundEarly(id) == id \in DOMAIN cache /\ ~(cache[id].age >= TTL)

\* ServiceStatusCache.Get: found iff present and not older than the ttl
CacheFound(id) == id \in DOMAIN cache /\ ~(cache[id].age > TTL)

\* ServiceStatusCache.Set: overwrite, stamped with the current time
CacheSet(c, id, status, pid) ==
  Put(c, id, [status |-> status, pid |-> pid, age |-> 0])

\* a sweep that takes entries one second early
ExpiredEarly(entry) == entry.age >= TTL

\* now.Sub(status.Timestamp) > cache.ttl, in CleanExpired
Expired(entry) == entry.age > TTL

\* DeleteService leaving the cache entry behind
CacheKeep(c, id) == c

\* ServiceStatusCache.Remove
CacheRemove(c, id) == Drop(c, id)

\* the Service built at the end of CreateService
NewService(id, cfg, wd) ==
  [id |-> id, name |-> cfg.name, exePath |-> cfg.exePath, args |-> cfg.args,
   workingDir |-> wd, status |-> "stopped", pid |-> 0, autoStart |-> FALSE,
   createdAt |-> now, updatedAt |-> now]

\* the OS entry scm.CreateService registers
NewOSService(cfg) ==
  [state |-> "Stopped", pid |-> 0, startType |-> "automatic",
   imagePath |-> TargetCommandLine(cfg), displayName |-> cfg.name,
   params |-> EmptyMap]

\* a lookup that finds every id
RegisteredAlways(id) == TRUE

\* service, exists := wsm.services[serviceID]
Registered(id) == id \in DOMAIN services

(* ---------------------------------------------------------------------- *)
(* CreateService                                                           *)
(* ---------------------------------------------------------------------- *)
\* CreateService without its existence check
NameNeverTaken(id) == FALSE

\* the existence check on the generated name
NameTaken(id) == id \in DOMAIN services

\* CreateService without its detached start
NoTaskAfterCreate(t, id) == t

\* go func() { time.Sleep(1s); wsm.StartService(serviceName) }()
TasksAfterCreate(t, id) == t \cup {id}

\* CreateService without its os.Stat
ExeNeverMissing(path) == FALSE

\* os.IsNotExist(os.Stat(config.ExePath))
ExeMissing(path) == path \notin OnDisk

\* Lock, os.Stat, generateServiceName, existence check
CreateCall(p, cfg) ==
  /\ pc[p] = "idle"
  /\ CanLock
  /\ LET id == generateServiceName(cfg.name, now) IN
       IF ExeMissing(cfg.exePath)
       THEN /\ returned' = Ret(p, "create", NoId, "ValidationError")
            /\ ReturnAtOnce(p)
       ELSE IF NameTaken(id)
       THEN /\ returned' = Ret(p, "create", id, "AlreadyExists")
            /\ ReturnAtOnce(p)
       ELSE /\ returned' = <<>>
            /\ GoOn(p, "c_scm", [loc[p] EXCEPT !.id = id, !.cfg = cfg])
  /\ emitted' = <<>>
  /\ scmLog' = <<>>
  /\ UNCHANGED <<services, cache, snapshot, osdb, tasks, savePending, now>>

\* withSCM: mgr.Connect, scm.CreateService(serviceName, binaryPath, config)
CreateScm(p, f) ==
  /\ pc[p] = "c_scm"
  /\ f \in {"none", "connect", "create"}
  /\ LET id == loc[p].id
         cfg == loc[p].cfg
     IN
       IF f = "connect"
       THEN /\ returned' = Ret(p, "create", id, "ConnectError")
            /\ scmLog' = <<"Connect">>
            /\ ReturnUnlock(p)
            /\ UNCHANGED osdb
       ELSE IF f = "create" \/ id \in DOMAIN osdb
       THEN /\ returned' = Ret(p, "create", id, "CreateError")
            /\ scmLog' = <<"Connect", "CreateService">>
            /\ ReturnUnlock(p)
            /\ UNCHANGED osdb
       ELSE /\ returned' = <<>>
            /\ scmLog' = <<"Connect", "CreateService">>
            /\ osdb' = Put(osdb, id, NewOSService(cfg))
            /\ GoOn(p, "c_wrap", loc[p])
  /\ emitted' = <<>>
  /\ UNCHANGED <<services, cache, snapshot, tasks, savePending, now>>

\* CreateService returning its error with the OS entry left behind
NotRolledBack(db, id) == db

\* windowsService.Delete() on the entry CreateService has just created
RolledBack(db, id) == Drop(db, id)

\* createServiceWrapper, setServiceImagePathDirect, setServiceWorkingDirectory,
\* then the registry insert, saveServices, emitServicesUpdated and the
\* detached auto-start
CreateWrap(p, f) ==
  /\ pc[p] = "c_wrap"
  /\ f \in {"none", "exe", "param", "image", "appdir"}
  /\ LET id == loc[p].id
         cfg == loc[p].cfg
         wd == DefaultedWorkingDir(cfg)
         stored == StoredParams(cfg, wd)
         service == NewService(id, cfg, wd)
     IN
       IF f \in {"exe", "param", "image"}
       THEN \* windowsService.Delete(), then the error
            /\ osdb' = RolledBack(osdb, id)
            /\ returned' = Ret(p, "create", id,
                               IF f = "image" THEN "ImagePathError" ELSE "WrapperError")
            /\ scmLog' = IF f = "exe" THEN <<"Delete">>
                         ELSE IF f = "param" THEN <<"SetParams", "Delete">>
                         ELSE <<"SetParams", "SetImagePath", "Delete">>
            /\ emitted' = <<>>
            /\ ReturnUnlock(p)
            /\ UNCHANGED <<services, snapshot, tasks>>
       ELSE /\ osdb' = [osdb EXCEPT ![id].imagePath = WrapperCommandLine(id),
                                    ![id].params =
                                       IF f = "appdir" THEN stored
                                       ELSE Put(stored, "AppDirectory", wd)]
            /\ services' = Put(services, id, service)
            /\ snapshot' = saveServices(services')
            /\ emitted' = emitServicesUpdated(services')
            /\ tasks' = TasksAfterCreate(tasks, id)
            /\ returned' = Ret(p, "create", id, "ok")
            /\ scmLog' = <<"SetParams", "SetImagePath", "SetAppDirectory">>
            /\ ReturnUnlock(p)
  /\ UNCHANGED <<cache, savePending, now>>

\* a wait that takes a stopped service for one still starting
WaitOutcomeNoEarlyFailure(state, target, f) ==
  IF f = "deadline" THEN "Timeout"
  ELSE IF f = "query" THEN "QueryError"
  ELSE IF state = target THEN "ok"
  ELSE "again"

(* ---------------------------------------------------------------------- *)
(* waitForServiceState: one pass of its loop                               *)
(* ---------------------------------------------------------------------- *)
\* f = "deadline": time.Now().Before(deadline) is false (never on the first
\* pass); f = "query": windowsService.Query fails.  "again" is the sleep.
WaitOutcome(state, target, f) ==
  IF f = "deadline" THEN "Timeout"
  ELSE IF f = "query" THEN "QueryError"
  ELSE IF state = target THEN "ok"
  ELSE IF target = "Running" /\ state = "Stopped" THEN "StartFailed"
  ELSE "again"

\* a pass that is not counted against the deadline
PolledUncounted(l) == [l EXCEPT !.polled = TRUE]

\* time.Sleep(500 * time.Millisecond): one more pass is behind the caller
Polled(l) == [l EXCEPT !.polled = TRUE, !.polls = Min(@ + 1, MaxPolls)]

\* time.Now().Before(deadline) is false once the passes that fit into the
\* 30 s are made
DeadlinePassed(p, f) == loc[p].polls >= MaxPolls => f = "deadline"

WaitFaults(p) == {"none", "query"} \cup (IF loc[p].polled THEN {"deadline"} ELSE {})

(* ---------------------------------------------------------------------- *)
(* StartService                                                            *)
(* ---------------------------------------------------------------------- *)
\* the record after waitForServiceState failed (manager.go 345-350)
StartFailedRecord(service) ==
  [service EXCEPT !.status = "error", !.updatedAt = now]

\* the record after a successful start (manager.go 352-355)
StartedRecord(service, processId) ==
  [service EXCEPT !.status = "running", !.pid = processId, !.updatedAt = now]

\* the running check left out of StartService
IsRunningNever(state) == FALSE

\* status.State == svc.Running (manager.go 335)
IsRunning(state) == state = "Running"

\* status.State == svc.Stopped (manager.go 388)
IsStopped(state) == state = "Stopped"

\* Lock, lookup, withSCM: OpenService, Query, Start
StartBegin(p, id, f) ==
  /\ pc[p] = "idle"
  /\ CanLock
  /\ f \in {"none", "connect", "open", "query", "start"}
  /\ emitted' = <<>>
  /\ UNCHANGED <<services, cache, snapshot, savePending, now>>
  /\ IF ~Registered(id)
     THEN /\ returned' = Ret(p, "start", id, "NotFound")
          /\ scmLog' = <<>>
          /\ ReturnAtOnce(p)
          /\ UNCHANGED <<osdb>>
     ELSE IF f = "connect"
     THEN /\ returned' = Ret(p, "start", id, "ConnectError")
          /\ scmLog' = <<"Connect">>
          /\ ReturnAtOnce(p)
          /\ UNCHANGED <<osdb>>
     ELSE IF f = "open" \/ id \notin DOMAIN osdb
     THEN /\ returned' = Ret(p, "start", id, "OpenError")
          /\ scmLog' = <<"Connect", "OpenService">>
          /\ ReturnAtOnce(p)
          /\ UNCHANGED <<osdb>>
     ELSE IF f = "query"
     THEN /\ returned' = Ret(p, "start", id, "QueryError")
          /\ scmLog' = <<"Connect", "OpenService", "Query">>
          /\ ReturnAtOnce(p)
          /\ UNCHANGED <<osdb>>
     ELSE IF IsRunning(osdb[id].state)
     THEN /\ returned' = Ret(p, "start", id, "AlreadyRunning")
          /\ scmLog' = <<"Connect", "OpenService", "Query">>
          /\ ReturnAtOnce(p)
          /\ UNCHANGED <<osdb>>
     ELSE IF f = "start" \/ osdb[id].state # "Stopped"
     THEN \* the OS refuses to start a service that is not stopped
          /\ returned' = Ret(p, "start", id, "StartError")
          /\ scmLog' = <<"Connect", "OpenService", "Query", "Start">>
          /\ ReturnAtOnce(p)
          /\ UNCHANGED <<osdb>>
     ELSE \E processId \in PIDs :
          /\ osdb' = [osdb EXCEPT ![id].state = "StartPending", ![id].pid = processId]
          /\ returned' = <<>>
          /\ scmLog' = <<"Connect", "OpenService", "Query", "Start">>
          /\ GoOn(p, "s_wait", [loc[p] EXCEPT !.id = id])

\* StartService called by the UI
StartCall(p, id, f) ==
  /\ p \in Procs
  /\ StartBegin(p, id, f)
  /\ UNCHANGED tasks

\* the goroutine of CreateService: time.Sleep(1s); wsm.StartService(serviceName)
AutoStart(id, f) ==
  /\ id \in tasks
  /\ StartBegin(AutoProc, id, f)
  /\ tasks' = tasks \ {id}

\* waitForServiceState(windowsService, svc.Running, 30s), one pass
StartWait(p, f) ==
  /\ pc[p] = "s_wait"
  /\ f \in WaitFaults(p)
  /\ LET id == loc[p].id
         out == WaitOutcome(osdb[id].state, "Running", f)
     IN
       /\ scmLog' = IF f = "deadline" THEN <<>> ELSE <<"Query">>
       /\ emitted' = <<>>
       /\ IF out = "ok"
          THEN /\ returned' = <<>>
               /\ GoOn(p, "s_fin", loc[p])
               /\ UNCHANGED <<services, snapshot>>
          ELSE IF out = "again"
          THEN /\ returned' = <<>>
               /\ GoOn(p, "s_wait", Polled(loc[p]))
               /\ UNCHANGED <<services, snapshot>>
          ELSE /\ services' = [services EXCEPT ![id] = StartFailedRecord(services[id])]
               /\ snapshot' = saveServices(services')
               /\ returned' = Ret(p, "start", id, out)
               /\ ReturnUnlock(p)
  /\ UNCHANGED <<cache, osdb, tasks, savePending, now>>

\* the second Query (its error dropped), the record, the cache, the event
StartFinish(p, f) ==
  /\ pc[p] = "s_fin"
  /\ f \in {"none", "query"}
  /\ LET id == loc[p].id
         processId == IF f = "query" THEN 0 ELSE osdb[id].pid
     IN
       /\ services' = [services EXCEPT ![id] = StartedRecord(services[id], processId)]
       /\ cache' = CacheSet(cache, id, "running", processId)
       /\ snapshot' = saveServices(services')
       /\ emitted' = emitServiceStatusChanged(id, "running", processId)
       /\ returned' = Ret(p, "start", id, "ok")
       /\ scmLog' = <<"Query">>
       /\ ReturnUnlock(p)
  /\ UNCHANGED <<osdb, tasks, savePending, now>>

(* ---------------------------------------------------------------------- *)
(* StopService                                                             *)
(* ---------------------------------------------------------------------- *)
\* StopService forgetting to reset the pid
StoppedRecordKeepingPid(service) ==
  [service EXCEPT !.status = "stopped", !.updatedAt = now]

\* the record both success paths of StopService write
StoppedRecord(service) ==
  [service EXCEPT !.status = "stopped", !.pid = 0, !.updatedAt = now]

\* the cache after StopService found the service already stopped
CacheAfterNoopStop(c, id) == c

\* the cache after StopService stopped the service
CacheAfterStop(c, id) == CacheSet(c, id, "stopped", 0)

\* Lock, lookup, withSCM: OpenService, Query, then the no-op path or Control(Stop)
StopCall(p, id, f) ==
  /\ p \in Procs
  /\ pc[p] = "idle"
  /\ CanLock
  /\ f \in {"none", "connect", "open", "query", "control"}
  /\ emitted' = <<>>
  /\ UNCHANGED <<tasks, savePending, now>>
  /\ IF ~Registered(id)
     THEN /\ returned' = Ret(p, "stop", id, "NotFound")
          /\ scmLog' = <<>>
          /\ ReturnAtOnce(p)
          /\ UNCHANGED <<services, cache, snapshot, osdb>>
     ELSE IF f = "connect"
     THEN /\ returned' = Ret(p, "stop", id, "ConnectError")
          /\ scmLog' = <<"Connect">>
          /\ ReturnAtOnce(p)
          /\ UNCHANGED <<services, cache, snapshot, osdb>>
     ELSE IF f = "open" \/ id \notin DOMAIN osdb
     THEN /\ returned' = Ret(p, "stop", id, "OpenError")
          /\ scmLog' = <<"Connect", "OpenService">>
          /\ ReturnAtOnce(p)
          /\ UNCHANGED <<services, cache, snapshot, osdb>>
     ELSE IF f = "query"
     THEN /\ returned' = Ret(p, "stop", id, "QueryError")
          /\ scmLog' = <<"Connect", "OpenService", "Query">>
          /\ ReturnAtOnce(p)
          /\ UNCHANGED <<services, cache, snapshot, osdb>>
     ELSE IF IsStopped(osdb[id].state)
     THEN /\ services' = [services EXCEPT ![id] = StoppedRecord(services[id])]
          /\ cache' = CacheAfterNoopStop(cache, id)
          /\ snapshot' = saveServices(services')
          /\ returned' = Ret(p, "stop", id, "ok")
          /\ scmLog' = <<"Connect", "OpenService", "Query">>
          /\ ReturnAtOnce(p)
          /\ UNCHANGED osdb
     ELSE IF f = "control" \/ osdb[id].state # "Running"
     THEN \* only a running wrapper accepts the stop control
          /\ returned' = Ret(p, "stop", id, "ControlError")
          /\ scmLog' = <<"Connect", "OpenService", "Query", "Control">>
          /\ ReturnAtOnce(p)
          /\ UNCHANGED <<services, cache, snapshot, osdb>>
     ELSE /\ osdb' = [osdb EXCEPT ![id].state = "StopPending"]
          /\ returned' = <<>>
          /\ scmLog' = <<"Connect", "OpenService", "Query", "Control">>
          /\ GoOn(p, "t_wait", [loc[p] EXCEPT !.id = id])
          /\ UNCHANGED <<services, cache, snapshot>>

\* waitForServiceState(windowsService, svc.Stopped, 30s), one pass, and on
\* success the record, the cache, the save and the event
StopWait(p, f) ==
  /\ pc[p] = "t_wait"
  /\ f \in WaitFaults(p)
  /\ LET id == loc[p].id
         out == WaitOutcome(osdb[id].state, "Stopped", f)
     IN
       /\ scmLog' = IF f = "deadline" THEN <<>> ELSE <<"Query">>
       /\ IF out = "ok"
          THEN /\ services' = [services EXCEPT ![id] = StoppedRecord(services[id])]
               /\ cache' = CacheAfterStop(cache, id)
               /\ snapshot' = saveServices(services')
               /\ emitted' = emitServiceStatusChanged(id, "stopped", 0)
               /\ returned' = Ret(p, "stop", id, "ok")
               /\ ReturnUnlock(p)
          ELSE IF out = "again"
          THEN /\ returned' = <<>>
               /\ emitted' = <<>>
               /\ GoOn(p, "t_wait", Polled(loc[p]))
               /\ UNCHANGED <<services, cache, snapshot>>
          ELSE /\ returned' = Ret(p, "stop", id, out)
               /\ emitted' = <<>>
               /\ ReturnUnlock(p)
               /\ UNCHANGED <<services, cache, snapshot>>
  /\ UNCHANGED <<osdb, tasks, savePending, now>>

(* ---------------------------------------------------------------------- *)
(* DeleteService                                                           *)
(* ---------------------------------------------------------------------- *)
\* Lock, lookup, withSCM: OpenService, Query, and Control(Stop) when the
\* query worked and the state is not stopped (its result is dropped)
DeleteCall(p, id, f) ==
  /\ p \in Procs
  /\ pc[p] = "idle"
  /\ CanLock
  /\ f \in {"none", "connect", "open", "query", "control"}
  /\ emitted' = <<>>
  /\ UNCHANGED <<services, cache, snapshot, tasks, savePending, now>>
  /\ IF ~Registered(id)
     THEN /\ returned' = Ret(p, "delete", id, "NotFound")
          /\ scmLog' = <<>>
          /\ ReturnAtOnce(p)
          /\ UNCHANGED osdb
     ELSE IF f = "connect"
     THEN /\ returned' = Ret(p, "delete", id, "ConnectError")
          /\ scmLog' = <<"Connect">>
          /\ ReturnAtOnce(p)
          /\ UNCHANGED osdb
     ELSE IF f = "open" \/ id \notin DOMAIN osdb
     THEN /\ returned' = Ret(p, "delete", id, "OpenError")
          /\ scmLog' = <<"Connect", "OpenService">>
          /\ ReturnAtOnce(p)
          /\ UNCHANGED osdb
     ELSE IF f = "query" \/ osdb[id].state = "Stopped"
     THEN /\ returned' = <<>>
          /\ scmLog' = <<"Connect", "OpenService", "Query">>
          /\ GoOn(p, "d_del", [loc[p] EXCEPT !.id = id])
          /\ UNCHANGED osdb
     ELSE /\ osdb' = IF f = "control" \/ osdb[id].state # "Running"
                     THEN osdb
                     ELSE [osdb EXCEPT ![id].state = "StopPending"]
          /\ returned' = <<>>
          /\ scmLog' = <<"Connect", "OpenService", "Query", "Control">>
          /\ GoOn(p, "d_wait", [loc[p] EXCEPT !.id = id])

\* waitForServiceState(windowsService, svc.Stopped, 30s), one pass; whatever
\* ends the wait, DeleteService goes on
DeleteWait(p, f) ==
  /\ pc[p] = "d_wait"
  /\ f \in WaitFaults(p)
  /\ LET out == WaitOutcome(osdb[loc[p].id].state, "Stopped", f) IN
       IF out = "again"
       THEN GoOn(p, "d_wait", Polled(loc[p]))
       ELSE GoOn(p, "d_del", loc[p])
  /\ scmLog' = IF f = "deadline" THEN <<>> ELSE <<"Query">>
  /\ returned' = <<>>
  /\ emitted' = <<>>
  /\ UNCHANGED <<services, cache, snapshot, osdb, tasks, savePending, now>>

\* windowsService.Delete, then the registry, the cache, the save, the event
DeleteFinish(p, f) ==
  /\ pc[p] = "d_del"
  /\ f \in {"none", "delete"}
  /\ LET id == loc[p].id IN
       IF f = "delete"
       THEN /\ returned' = Ret(p, "delete", id, "DeleteError")
            /\ emitted' = <<>>
            /\ UNCHANGED <<services, cache, snapshot, osdb>>
       ELSE /\ osdb' = Drop(osdb, id)
            /\ services' = Drop(services, id)
            /\ cache' = CacheRemove(cache, id)
            /\ snapshot' = saveServices(services')
            /\ emitted' = emitServicesUpdated(services')
            /\ returned' = Ret(p, "delete", id, "ok")
  /\ scmLog' = <<"Delete">>
  /\ ReturnUnlock(p)
  /\ UNCHANGED <<tasks, savePending, now>>

(* ---------------------------------------------------------------------- *)
(* SetServiceAutoStart                                                     *)
(* ---------------------------------------------------------------------- *)
SetServiceAutoStart(p, id, enabled, f) ==
  /\ p \in Procs
  /\ pc[p] = "idle"
  /\ CanLock
  /\ f \in {"none", "connect", "open", "config", "update"}
  /\ emitted' = <<>>
  /\ ReturnAtOnce(p)
  /\ UNCHANGED <<cache, tasks, savePending, now>>
  /\ IF ~Registered(id)
     THEN /\ returned' = Ret(p, "autostart", id, "NotFound")
          /\ scmLog' = <<>>
          /\ UNCHANGED <<services, snapshot, osdb>>
     ELSE IF f = "connect"
     THEN /\ returned' = Ret(p, "autostart", id, "ConnectError")
          /\ scmLog' = <<"Connect">>
          /\ UNCHANGED <<services, snapshot, osdb>>
     ELSE IF f = "open" \/ id \notin DOMAIN osdb
     THEN /\ returned' = Ret(p, "autostart", id, "OpenError")
          /\ scmLog' = <<"Connect", "OpenService">>
          /\ UNCHANGED <<services, snapshot, osdb>>
     ELSE IF f = "config"
     THEN /\ returned' = Ret(p, "autostart", id, "ConfigError")
          /\ scmLog' = <<"Connect", "OpenService", "Config">>
          /\ UNCHANGED <<services, snapshot, osdb>>
     ELSE IF f = "update"
     THEN /\ returned' = Ret(p, "autostart", id, "UpdateError")
          /\ scmLog' = <<"Connect", "OpenService", "Config", "UpdateConfig">>
          /\ UNCHANGED <<services, snapshot, osdb>>
     ELSE /\ osdb' = [osdb EXCEPT ![id].startType =
                         IF enabled THEN "automatic" ELSE "manual"]
          /\ services' = [services EXCEPT ![id].autoStart = enabled,
                                          ![id].updatedAt = now]
          /\ snapshot' = saveServices(services')
          /\ returned' = Ret(p, "autostart", id, "ok")
          /\ scmLog' = <<"Connect", "OpenService", "Config", "UpdateConfig">>

(* ---------------------------------------------------------------------- *)
(* GetServices                                                             *)
(* ---------------------------------------------------------------------- *)
\* what getServiceRealTimeStatus answers when OpenService or Query fails
QueryFailedStatus == [status |-> "error", pid |-> 0]

\* getServiceRealTimeStatus taking a failed OpenService or Query for a
\* stopped service
RealTimeStatusHidingFailure(id, f) ==
  IF CacheFound(id)
  THEN [status |-> cache[id].status, pid |-> cache[id].pid]
  ELSE IF f \in {"open", "query"} \/ id \notin DOMAIN osdb
  THEN [status |-> "stopped", pid |-> 0]
  ELSE StatusOfState(osdb[id].state, osdb[id].pid)

\* getServiceRealTimeStatus: the cached status when Get finds one, else the
\* status of an OpenService + Query, "error" when either fails
RealTimeStatus(id, f) ==
  IF CacheFound(id)
  THEN [status |-> cache[id].status, pid |-> cache[id].pid]
  ELSE IF f \in {"open", "query"} \/ id \notin DOMAIN osdb
  THEN QueryFailedStatus
  ELSE StatusOfState(osdb[id].state, osdb[id].pid)

\* the cache after getServiceRealTimeStatus: refreshed unless Get found an entry
CacheAfterQuery(id, st) ==
  IF CacheFound(id) THEN cache ELSE CacheSet(cache, id, st.status, st.pid)

\* what GetServices hands back: the records themselves
ListOf(reg) ==
  { [id |-> i, status |-> reg[i].status, pid |-> reg[i].pid] : i \in DOMAIN reg }

\* RLock, withSCM: mgr.Connect
GetCall(p, f) ==
  /\ p \in Procs
  /\ pc[p] = "idle"
  /\ CanRLock
  /\ f \in {"none", "connect"}
  /\ IF f = "connect"
     THEN /\ returned' = Ret(p, "list", NoId, "ConnectError")
          /\ scmLog' = <<"Connect">>
          /\ Leave(p)
          /\ UNCHANGED mutex
     ELSE /\ returned' = <<>>
          /\ scmLog' = <<"Connect">>
          /\ pc' = [pc EXCEPT ![p] = "g_iter"]
          /\ loc' = [loc EXCEPT ![p] = [NoLoc EXCEPT !.todo = DOMAIN services]]
          /\ mutex' = [mutex EXCEPT !.readers = @ \cup {p}]
  /\ emitted' = <<>>
  /\ UNCHANGED <<services, cache, snapshot, osdb, tasks, savePending, now>>

\* one pass of the loop over wsm.services
GetVisit(p, id, f) ==
  /\ pc[p] = "g_iter"
  /\ id \in loc[p].todo
  /\ f \in {"none", "open", "query"}
  /\ LET st == RealTimeStatus(id, f) IN
       /\ cache' = CacheAfterQuery(id, st)
       /\ services' = [services EXCEPT ![id].status = st.status,
                                       ![id].pid = st.pid,
                                       ![id].updatedAt = now]
       /\ scmLog' = IF CacheFound(id) THEN <<>>
                    ELSE IF f = "open" \/ id \notin DOMAIN osdb THEN <<"OpenService!">>
                    ELSE IF f = "query" THEN <<"OpenService", "Query!">>
                    ELSE <<"OpenService", "Query">>
  /\ loc' = [loc EXCEPT ![p].todo = @ \ {id}]
  /\ returned' = <<>>
  /\ emitted' = <<>>
  /\ UNCHANGED <<snapshot, mutex, osdb, pc, tasks, savePending, now>>

\* RUnlock, `go wsm.saveServices()`, return services
GetReturn(p) ==
  /\ pc[p] = "g_iter"
  /\ loc[p].todo = {}
  /\ returned' = <<[op |-> "list", id |-> NoId, err |-> "ok",
                    list |-> ListOf(services)]>>
  /\ savePending' = Min(savePending + 1, MaxPendingSaves)
  /\ mutex' = [mutex EXCEPT !.readers = @ \ {p}]
  /\ Leave(p)
  /\ emitted' = <<>>
  /\ scmLog' = <<>>
  /\ UNCHANGED <<services, cache, snapshot, osdb, tasks, now>>

\* the detached saveServices of GetServices
AsyncSave ==
  /\ savePending > 0
  /\ savePending' = savePending - 1
  /\ snapshot' = saveServices(services)
  /\ returned' = <<>>
  /\ emitted' = <<>>
  /\ scmLog' = <<>>
  /\ UNCHANGED <<services, cache, mutex, osdb, pc, loc, tasks, now>>

(* ---------------------------------------------------------------------- *)
(* Status cache sweep                                                      *)
(* ---------------------------------------------------------------------- *)
\* ServiceStatusCache.CleanExpired, run by StartCleanupRoutine's ticker
CleanExpired ==
  /\ cache' = [i \in {j \in DOMAIN cache : ~Expired(cache[j])} |-> cache[i]]
  /\ cache' # cache
  /\ returned' = <<>>
  /\ emitted' = <<>>
  /\ scmLog' = <<>>
  /\ UNCHANGED <<services, snapshot, mutex, osdb, pc, loc, tasks, savePending,
                 now>>

(* ---------------------------------------------------------------------- *)
(* Environment: the OS, the wrapper processes, the clock                   *)
(* ---------------------------------------------------------------------- *)
\* a manager goroutine holds an open handle of the OS service
HandleOpen(id) ==
  \E p \in AllProcs : pc[p] \notin {"idle", "g_iter"} /\ loc[p].id = id

\* the wrapper the OS launched can load its configuration and spawn the target
CanSpawn(id) ==
  /\ osdb[id].imagePath = WrapperCommandLine(id)
  /\ "ExePath" \in DOMAIN osdb[id].params
  /\ osdb[id].params["ExePath"] \in Spawnable

\* the wrapper reports Running
WrapperRunning(id) ==
  /\ id \in DOMAIN osdb
  /\ osdb[id].state = "StartPending"
  /\ CanSpawn(id)
  /\ osdb' = [osdb EXCEPT ![id].state = "Running"]

\* the wrapper (or the OS, for a command line that is no service) gives up
WrapperFailed(id) ==
  /\ id \in DOMAIN osdb
  /\ osdb[id].state = "StartPending"
  /\ ~CanSpawn(id)
  /\ osdb' = [osdb EXCEPT ![id].state = "Stopped", ![id].pid = 0]

\* the target exits on its own and the wrapper reports Stopped
TargetExit(id) ==
  /\ id \in DOMAIN osdb
  /\ osdb[id].state = "Running"
  /\ osdb' = [osdb EXCEPT ![id].state = "Stopped", ![id].pid = 0]

\* the wrapper finishes a stop request
WrapperStopped(id) ==
  /\ id \in DOMAIN osdb
  /\ osdb[id].state = "StopPending"
  /\ osdb' = [osdb EXCEPT ![id].state = "Stopped", ![id].pid = 0]

\* somebody else removes a stopped service from the OS database
OSVanish(id) ==
  /\ id \in DOMAIN osdb
  /\ osdb[id].state = "Stopped"
  /\ ~HandleOpen(id)
  /\ osdb' = Drop(osdb, id)

EnvFrame ==
  /\ returned' = <<>>
  /\ emitted' = <<>>
  /\ scmLog' = <<>>
  /\ UNCHANGED <<services, cache, snapshot, mutex, pc, loc, tasks, savePending,
                 now>>

OSStep ==
  \E id \in ServiceIds :
    /\ \/ WrapperRunning(id)
       \/ WrapperFailed(id)
       \/ TargetExit(id)
       \/ WrapperStopped(id)
       \/ OSVanish(id)
    /\ EnvFrame

\* d seconds pass
TickSteps == {TTL + 1}
Tick(d) ==
  /\ now + d <= MaxNow
  /\ now' = now + d
  /\ cache' = [i \in DOMAIN cache |->
                 [cache[i] EXCEPT !.age = Min(@ + d, TTL + 1)]]
  /\ returned' = <<>>
  /\ emitted' = <<>>
  /\ scmLog' = <<>>
  /\ UNCHANGED <<services, snapshot, mutex, osdb, pc, loc, tasks, savePending>>

(* ---------------------------------------------------------------------- *)
(* The wrapper supervisor: EmbeddedServiceWrapper.Execute (wrapper.go)     *)
(* ---------------------------------------------------------------------- *)
\* control requests (svc.Cmd); "Pause" stands for every other command
Commands == {"Stop", "Shutdown", "Interrogate", "Pause"}

ManagerFrame ==
  UNCHANGED <<services, cache, snapshot, mutex, cacheMutex, osdb, pc, loc, tasks,
              savePending, now, returned, emitted, scmLog, issued, stoppedOK,
              lastSet, osSince>>

\* a status Execute reports on its own, and one it sends back for interrogate
Report(st) == [state |-> st, echo |-> FALSE]

Echo(st) == [state |-> st, echo |-> TRUE]

\* the state the OS holds for the service: the last status sent on s
CurrentStatus == statuses[Len(statuses)].state

\* Execute leaving stop-pending out
ReportsOnStopSilent(seq) == seq

\* s <- svc.Status{State: svc.StopPending}
ReportsOnStop(seq) == Append(seq, Report("StopPending"))

\* a select that looks at the target before it looks at r
SelectBranchTargetFirst(reqs, running) ==
  IF running THEN "sleep"
  ELSE IF reqs # <<>> THEN "request"
  ELSE "exited"

\* the select of Execute: a pending request wins over the default branch
SelectBranch(reqs, running) ==
  IF reqs # <<>> THEN "request"
  ELSE IF ~running THEN "exited"
  ELSE "sleep"

\* monitorTargetProcess never clearing the flag
AfterWaitUnnoticed(w) == w

\* esw.isRunning = false, after process.Wait() came back
AfterWait(w) == [w EXCEPT !.isRunning = FALSE]

\* s <- svc.Status{State: svc.StartPending}
ExecuteBegin ==
  /\ execute.pc = "begin"
  /\ statuses' = Append(statuses, Report("StartPending"))
  /\ execute' = [execute EXCEPT !.pc = "spawn"]
  /\ UNCHANGED <<esw, monitor, requests, delivered>>
  /\ ManagerFrame

\* startTargetProcess; on its error Stopped is reported and Execute returns 1
ExecuteSpawn ==
  /\ execute.pc = "spawn"
  /\ IF esw.config.exePath \in Spawnable
     THEN /\ esw' = [esw EXCEPT !.process = "alive", !.isRunning = TRUE]
          /\ execute' = [execute EXCEPT !.pc = "up"]
          /\ UNCHANGED statuses
     ELSE /\ statuses' = Append(statuses, Report("Stopped"))
          /\ execute' = [pc |-> "done", exitCode |-> 1]
          /\ UNCHANGED esw
  /\ UNCHANGED <<monitor, requests, delivered>>
  /\ ManagerFrame

\* s <- svc.Status{State: svc.Running, ...}; go esw.monitorTargetProcess()
ExecuteUp ==
  /\ execute.pc = "up"
  /\ statuses' = Append(statuses, Report("Running"))
  /\ monitor' = "wait"
  /\ execute' = [execute EXCEPT !.pc = "loop"]
  /\ UNCHANGED <<esw, requests, delivered>>
  /\ ManagerFrame

\* one pass of the for/select loop
ExecuteSelect ==
  /\ execute.pc = "loop"
  /\ LET branch == SelectBranch(requests, esw.isRunning) IN
       IF branch = "request"
       THEN /\ requests' = Tail(requests)
            /\ IF Head(requests).cmd \in {"Stop", "Shutdown"}
               THEN /\ statuses' = ReportsOnStop(statuses)
                    /\ execute' = [execute EXCEPT !.pc = "stop"]
               ELSE IF Head(requests).cmd = "Interrogate"
               THEN /\ statuses' = Append(statuses, Echo(Head(requests).status))
                    /\ UNCHANGED execute
               ELSE UNCHANGED <<statuses, execute>>
       ELSE IF branch = "exited"
       THEN /\ statuses' = Append(statuses, Report("Stopped"))
            /\ execute' = [pc |-> "done", exitCode |-> 0]
            /\ UNCHANGED requests
       ELSE \* time.Sleep(1 * time.Second)
            UNCHANGED <<statuses, execute, requests>>
  /\ UNCHANGED <<esw, monitor, delivered>>
  /\ ManagerFrame

\* a stop that leaves the target alone
stopTargetProcessSkipped(w) == w

\* stopTargetProcess: Kill, Wait, isRunning = false, when the flag is set
stopTargetProcess(w) ==
  IF w.process # "none" /\ w.isRunning
  THEN [w EXCEPT !.process = IF @ = "alive" THEN "killed" ELSE @,
                 !.isRunning = FALSE]
  ELSE w

\* esw.stopTargetProcess() in the stop branch of Execute
ExecuteStop ==
  /\ execute.pc = "stop"
  /\ esw' = stopTargetProcess(esw)
  /\ execute' = [execute EXCEPT !.pc = "stopped"]
  /\ UNCHANGED <<monitor, requests, statuses, delivered>>
  /\ ManagerFrame

\* s <- svc.Status{State: svc.Stopped}; return false, 0
ExecuteStopped ==
  /\ execute.pc = "stopped"
  /\ statuses' = Append(statuses, Report("Stopped"))
  /\ execute' = [pc |-> "done", exitCode |-> 0]
  /\ UNCHANGED <<esw, monitor, requests, delivered>>
  /\ ManagerFrame

\* monitorTargetProcess: process.Wait() comes back, the flag is cleared.
\* The flag is written here and read by Execute without synchronization; a
\* read that still sees the old value is this step happening later.
MonitorWake ==
  /\ monitor = "wait"
  /\ esw.process \in {"exited", "killed"}
  /\ esw' = AfterWait(esw)
  /\ monitor' = "done"
  /\ UNCHANGED <<execute, requests, statuses, delivered>>
  /\ ManagerFrame

\* the target exits on its own
TargetDies ==
  /\ esw.process = "alive"
  /\ esw' = [esw EXCEPT !.process = "exited"]
  /\ UNCHANGED <<execute, monitor, requests, statuses, delivered>>
  /\ ManagerFrame

\* The OS hands the wrapper a control request: one request is outstanding at
\* a time, it carries the state the OS held when it was handed over
\* (c.CurrentStatus), and stop and shutdown are accepted only while that
\* state is Running with AcceptStop | AcceptShutdown.
Deliver(c) ==
  /\ execute.pc \notin {"off", "done"}
  /\ Len(delivered) < MaxRequests
  /\ requests = <<>>
  /\ statuses # <<>>
  /\ c \in {"Stop", "Shutdown"} => CurrentStatus = "Running"
  /\ requests' = Append(requests, [cmd |-> c, status |-> CurrentStatus])
  /\ delivered' = Append(delivered, c)
  /\ UNCHANGED <<esw, execute, monitor, statuses>>
  /\ ManagerFrame

\* svc.Run calls Execute of a wrapper built from some configuration
WrapInit ==
  /\ services = EmptyMap
  /\ cache = EmptyMap
  /\ snapshot = NoFile
  /\ mutex = [writer |-> NoProc, readers |-> {}]
  /\ cacheMutex = CacheUnlocked
  /\ osdb = EmptyMap
  /\ pc = [p \in AllProcs |-> "idle"]
  /\ loc = [p \in AllProcs |-> NoLoc]
  /\ tasks = {}
  /\ savePending = 0
  /\ now = 0
  /\ returned = <<>>
  /\ emitted = <<>>
  /\ scmLog = <<>>
  /\ issued = EmptyMap
  /\ stoppedOK = {}
  /\ lastSet = EmptyMap
  /\ osSince = EmptyMap
  /\ \E cfg \in Configs :
       esw = [config |-> cfg, process |-> "none", isRunning |-> FALSE]
  /\ execute = [pc |-> "begin", exitCode |-> 0]
  /\ monitor = "none"
  /\ requests = <<>>
  /\ statuses = <<>>
  /\ delivered = <<>>

WrapNext ==
  \/ ExecuteBegin
  \/ ExecuteSpawn
  \/ ExecuteUp
  \/ ExecuteSelect
  \/ ExecuteStop
  \/ ExecuteStopped
  \/ MonitorWake
  \/ TargetDies
  \/ \E c \in Commands : Deliver(c)

\* Execute and the monitor goroutine keep running
WrapFairness ==
  /\ WF_vars(ExecuteBegin)
  /\ WF_vars(ExecuteSpawn)
  /\ WF_vars(ExecuteUp)
  /\ WF_vars(ExecuteSelect)
  /\ WF_vars(ExecuteStop)
  /\ WF_vars(ExecuteStopped)
  /\ WF_vars(MonitorWake)

WrapSpec == WrapInit /\ [][WrapNext]_vars /\ WrapFairness

(* ---------------------------------------------------------------------- *)
(* What a step shows to the outside                                        *)
(* ---------------------------------------------------------------------- *)
\* an id that never existed
UnknownId == generateServiceName(<<"b">>, 0)
\* ids a caller may pass
CallIds == DOMAIN services \cup {UnknownId}

\* what the latest step returned, emitted and asked of the SCM
Results == {returned[i] : i \in DOMAIN returned}
Events == {emitted[i] : i \in DOMAIN emitted}
Calls == {scmLog[i] : i \in DOMAIN scmLog}

\* errors of withSCM / OpenService / Query, before the operation proper
ScmFailures == {"ConnectError", "OpenError", "QueryError"}

\* the caller has room for another service
Room == Cardinality(DOMAIN services) < MaxServices

(* ---------------------------------------------------------------------- *)
(* History variables                                                       *)
(* ---------------------------------------------------------------------- *)
\* no wrapper supervisor is followed step by step
NoSupervisor == UNCHANGED <<esw, execute, monitor, requests, statuses, delivered>>

\* every operation of the status cache is taken as one step
NoCacheLock == UNCHANGED cacheMutex

\* the history variables are not kept
NoHistory ==
  UNCHANGED <<issued, stoppedOK, lastSet, osSince>> /\ NoSupervisor /\ NoCacheLock

\* ids the latest step handed out, stopped, deleted
CreatedNow == {r.id : r \in {x \in Results : x.op = "create" /\ x.err = "ok"}}
StoppedNow == {r.id : r \in {x \in Results : x.op = "stop" /\ x.err = "ok"}}
DeletedNow == {r.id : r \in {x \in Results : x.op = "delete" /\ x.err = "ok"}}
\* ids some StartService call is working on or has just returned for
StartingNow ==
  {r.id : r \in {x \in Results : x.op = "start"}}
    \cup {loc[p].id : p \in {q \in AllProcs : pc[q] \in {"s_wait", "s_fin"}}}

IssuedCount(id) == IF id \in DOMAIN issued THEN issued[id] ELSE 0

\* the history variables follow what the step returned
History ==
  /\ issued' = [id \in DOMAIN issued \cup CreatedNow' |->
                  IF id \in CreatedNow'
                  THEN Min(IssuedCount(id) + 1, MaxIssues)
                  ELSE issued[id]]
  /\ stoppedOK' = (stoppedOK \ (StartingNow' \cup DeletedNow' \cup CreatedNow'))
                    \cup StoppedNow'
  /\ UNCHANGED <<lastSet, osSince>>
  /\ NoSupervisor
  /\ NoCacheLock

(* ---------------------------------------------------------------------- *)
(* Specification: one caller, every operation, the OS and the clock         *)
(* ---------------------------------------------------------------------- *)
Caller == "ui1"

Next ==
  \/ \E cfg \in Configs : Room /\ CreateCall(Caller, cfg) /\ NoHistory
  \/ \E f \in {"none", "connect", "create"} : CreateScm(Caller, f) /\ NoHistory
  \/ \E f \in {"none", "param", "image"} : CreateWrap(Caller, f) /\ NoHistory
  \/ \E id \in CallIds, f \in {"none", "connect", "start"} :
        StartCall(Caller, id, f) /\ NoHistory
  \/ \E id \in tasks, f \in {"none", "start"} : AutoStart(id, f) /\ NoHistory
  \/ \E p \in AllProcs, f \in {"none", "query", "deadline"} : StartWait(p, f) /\ NoHistory
  \/ \E p \in AllProcs, f \in {"none", "query"} : StartFinish(p, f) /\ NoHistory
  \/ \E id \in CallIds, f \in {"none", "connect", "control"} :
        StopCall(Caller, id, f) /\ NoHistory
  \/ \E f \in {"none", "query", "deadline"} : StopWait(Caller, f) /\ NoHistory
  \/ \E id \in CallIds, f \in {"none", "connect", "query", "control"} :
        DeleteCall(Caller, id, f) /\ NoHistory
  \/ \E f \in {"none", "query", "deadline"} : DeleteWait(Caller, f) /\ NoHistory
  \/ \E f \in {"none", "delete"} : DeleteFinish(Caller, f) /\ NoHistory
  \/ \E f \in {"none", "connect"} : GetCall(Caller, f) /\ NoHistory
  \/ \E id \in DOMAIN services, f \in {"none", "query"} :
        GetVisit(Caller, id, f) /\ NoHistory
  \/ GetReturn(Caller) /\ NoHistory
  \/ AsyncSave /\ NoHistory
  \/ CleanExpired /\ NoHistory
  \/ OSStep /\ NoHistory
  \/ \E d \in TickSteps : Tick(d) /\ NoHistory

Spec == Init /\ [][Next]_vars

(* ---------------------------------------------------------------------- *)
(* Specification: the same caller without environment failures, with the   *)
(* history of the ids handed out and of the services stopped                *)
(* ---------------------------------------------------------------------- *)
\* the OS and the wrappers, nobody else touching the service database
OSStepOwn ==
  \E id \in ServiceIds :
    /\ \/ WrapperRunning(id)
       \/ WrapperFailed(id)
       \/ TargetExit(id)
       \/ WrapperStopped(id)
    /\ EnvFrame

HistNext ==
  \/ \E cfg \in Configs : Room /\ CreateCall(Caller, cfg) /\ History
  \/ CreateScm(Caller, "none") /\ History
  \/ CreateWrap(Caller, "none") /\ History
  \/ \E id \in CallIds : StartCall(Caller, id, "none") /\ History
  \/ \E id \in tasks : AutoStart(id, "none") /\ History
  \/ \E p \in AllProcs : StartWait(p, "none") /\ History
  \/ \E p \in AllProcs : StartFinish(p, "none") /\ History
  \/ \E id \in CallIds : StopCall(Caller, id, "none") /\ History
  \/ StopWait(Caller, "none") /\ History
  \/ \E id \in CallIds : DeleteCall(Caller, id, "none") /\ History
  \/ DeleteWait(Caller, "none") /\ History
  \/ DeleteFinish(Caller, "none") /\ History
  \/ GetCall(Caller, "none") /\ History
  \/ \E id \in DOMAIN services : GetVisit(Caller, id, "none") /\ History
  \/ GetReturn(Caller) /\ History
  \/ AsyncSave /\ History
  \/ CleanExpired /\ History
  \/ OSStepOwn /\ History
  \/ \E d \in TickSteps : Tick(d) /\ History

HistSpec == Init /\ [][HistNext]_vars

(* ---------------------------------------------------------------------- *)
(* Specification: two callers at once                                      *)
(* ---------------------------------------------------------------------- *)
ConcNext ==
  \/ \E p \in Procs, cfg \in Configs : CreateCall(p, cfg) /\ NoHistory
  \/ \E p \in Procs, f \in {"none", "create"} : CreateScm(p, f) /\ NoHistory
  \/ \E p \in Procs, f \in {"none", "image"} : CreateWrap(p, f) /\ NoHistory
  \/ \E id \in tasks : AutoStart(id, "none") /\ NoHistory
  \/ StartWait(AutoProc, "none") /\ NoHistory
  \/ StartFinish(AutoProc, "none") /\ NoHistory
  \/ \E p \in Procs, id \in CallIds : DeleteCall(p, id, "none") /\ NoHistory
  \/ \E p \in Procs : DeleteWait(p, "none") /\ NoHistory
  \/ \E p \in Procs : DeleteFinish(p, "none") /\ NoHistory
  \/ \E p \in Procs : GetCall(p, "none") /\ NoHistory
  \/ \E p \in Procs, id \in DOMAIN services : GetVisit(p, id, "none") /\ NoHistory
  \/ \E p \in Procs : GetReturn(p) /\ NoHistory
  \/ AsyncSave /\ NoHistory
  \/ OSStepOwn /\ NoHistory
  \/ \E d \in TickSteps : Tick(d) /\ NoHistory

ConcSpec == Init /\ [][ConcNext]_vars

(* ---------------------------------------------------------------------- *)
(* Specification: one caller keeping up to two services and listing them   *)
(* ---------------------------------------------------------------------- *)
PairRoom == Cardinality(DOMAIN services) < MaxServices + 1

PairNext ==
  \/ \E cfg \in Configs : PairRoom /\ CreateCall(Caller, cfg) /\ NoHistory
  \/ CreateScm(Caller, "none") /\ NoHistory
  \/ \E f \in {"none", "appdir"} : CreateWrap(Caller, f) /\ NoHistory
  \/ \E id \in tasks : AutoStart(id, "none") /\ NoHistory
  \/ StartWait(AutoProc, "none") /\ NoHistory
  \/ StartFinish(AutoProc, "none") /\ NoHistory
  \/ \E f \in {"none", "connect"} : GetCall(Caller, f) /\ NoHistory
  \/ \E id \in DOMAIN services, f \in {"none", "open", "query"} :
        GetVisit(Caller, id, f) /\ NoHistory
  \/ GetReturn(Caller) /\ NoHistory
  \/ AsyncSave /\ NoHistory
  \/ CleanExpired /\ NoHistory
  \/ OSStep /\ NoHistory
  \/ \E d \in TickSteps : Tick(d) /\ NoHistory

PairSpec == Init /\ [][PairNext]_vars

(* ---------------------------------------------------------------------- *)
(* Specification: a service whose target launches and keeps running, left  *)
(* to its automatic start while the caller keeps listing                   *)
(* ---------------------------------------------------------------------- *)
LiveConfigs == {cfg \in Configs : cfg.exePath \in Spawnable}
LiveTickSteps == {1}

LiveCreate == \E cfg \in LiveConfigs : Room /\ CreateCall(Caller, cfg) /\ NoHistory
LiveCreateScm == CreateScm(Caller, "none") /\ NoHistory
LiveCreateWrap == CreateWrap(Caller, "none") /\ NoHistory
LiveAutoStart == \E id \in ServiceIds : AutoStart(id, "none") /\ NoHistory
LiveStartWait == StartWait(AutoProc, "none") /\ NoHistory
LiveStartFinish == StartFinish(AutoProc, "none") /\ NoHistory
LiveGetCall == GetCall(Caller, "none") /\ NoHistory
LiveGetVisit == \E id \in ServiceIds : GetVisit(Caller, id, "none") /\ NoHistory
LiveGetReturn == GetReturn(Caller) /\ NoHistory
LiveWrapperRunning == \E id \in ServiceIds : WrapperRunning(id) /\ EnvFrame /\ NoHistory

LiveNext ==
  \/ LiveCreate
  \/ LiveCreateScm
  \/ LiveCreateWrap
  \/ LiveAutoStart
  \/ LiveStartWait
  \/ LiveStartFinish
  \/ LiveGetCall
  \/ LiveGetVisit
  \/ LiveGetReturn
  \/ AsyncSave /\ NoHistory
  \/ CleanExpired /\ NoHistory
  \/ LiveWrapperRunning
  \/ \E d \in LiveTickSteps : Tick(d) /\ NoHistory

\* a CreateService under way runs to its end, the detached goroutine gets
\* the write lock (sync.RWMutex lets no new reader in once a writer waits),
\* the wait loop and the wrapper go on, and the caller keeps calling
\* GetServices
LiveFairness ==
  /\ WF_vars(LiveCreateScm)
  /\ WF_vars(LiveCreateWrap)
  /\ SF_vars(LiveAutoStart)
  /\ WF_vars(LiveStartWait)
  /\ WF_vars(LiveStartFinish)
  /\ WF_vars(LiveWrapperRunning)
  /\ WF_vars(LiveGetCall)
  /\ WF_vars(LiveGetVisit)
  /\ WF_vars(LiveGetReturn)

LiveSpec == Init /\ [][LiveNext]_vars /\ LiveFairness

(* ---------------------------------------------------------------------- *)
(* Specification: one caller who also switches the start type              *)
(* ---------------------------------------------------------------------- *)
AutoNext ==
  \/ \E cfg \in Configs : Room /\ CreateCall(Caller, cfg) /\ NoHistory
  \/ CreateScm(Caller, "none") /\ NoHistory
  \/ CreateWrap(Caller, "none") /\ NoHistory
  \/ \E id \in CallIds : StartCall(Caller, id, "none") /\ NoHistory
  \/ \E id \in tasks : AutoStart(id, "none") /\ NoHistory
  \/ \E p \in AllProcs : StartWait(p, "none") /\ NoHistory
  \/ \E p \in AllProcs : StartFinish(p, "none") /\ NoHistory
  \/ \E id \in CallIds : StopCall(Caller, id, "none") /\ NoHistory
  \/ StopWait(Caller, "none") /\ NoHistory
  \/ \E id \in CallIds : DeleteCall(Caller, id, "none") /\ NoHistory
  \/ DeleteWait(Caller, "none") /\ NoHistory
  \/ DeleteFinish(Caller, "none") /\ NoHistory
  \/ \E id \in CallIds, e \in BOOLEAN,
        f \in {"none", "connect", "open", "config", "update"} :
        SetServiceAutoStart(Caller, id, e, f) /\ NoHistory
  \/ \E f \in {"none", "connect"} : GetCall(Caller, f) /\ NoHistory
  \/ \E id \in DOMAIN services : GetVisit(Caller, id, "none") /\ NoHistory
  \/ GetReturn(Caller) /\ NoHistory
  \/ AsyncSave /\ NoHistory
  \/ OSStep /\ NoHistory
  \/ \E d \in TickSteps : Tick(d) /\ NoHistory

AutoSpec == Init /\ [][AutoNext]_vars

(* ---------------------------------------------------------------------- *)
(* Specification: the application is closed and started again               *)
(* ---------------------------------------------------------------------- *)
\* NewApp, NewWindowsServiceManager and App.startup of a new process, with
\* no call of the previous one under way: the map starts empty and
\* loadServices fills it from wsm.dataFile; detached goroutines of the
\* previous process are gone; the OS database and the file stay.
Startup ==
  /\ \A p \in AllProcs : pc[p] = "idle"
  /\ services' = loadServices(snapshot, EmptyMap)
  /\ cache' = EmptyMap
  /\ mutex' = [writer |-> NoProc, readers |-> {}]
  /\ tasks' = {}
  /\ savePending' = 0
  /\ returned' = Ret(Caller, "startup", NoId, "ok")
  /\ emitted' = <<>>
  /\ scmLog' = <<>>
  /\ UNCHANGED <<snapshot, osdb, pc, loc, now>>

RestartNext ==
  \/ AutoNext
  \/ Startup /\ NoHistory

RestartSpec == Init /\ [][RestartNext]_vars

(* ---------------------------------------------------------------------- *)
(* Specification: the status query over every OS state                      *)
(* ---------------------------------------------------------------------- *)
\* the OS reports the service in some state with some process id: the
\* input of windowsService.Query in getServiceRealTimeStatus
OSReports(id, state, processId) ==
  /\ id \in DOMAIN osdb
  /\ osdb' = [osdb EXCEPT ![id].state = state, ![id].pid = processId]
  /\ EnvFrame

QueryNext ==
  \/ \E cfg \in LiveConfigs : Room /\ CreateCall(Caller, cfg) /\ NoHistory
  \/ CreateScm(Caller, "none") /\ NoHistory
  \/ CreateWrap(Caller, "none") /\ NoHistory
  \/ \E id \in ServiceIds, state \in OSStates, processId \in 0..MaxPid :
        OSReports(id, state, processId) /\ NoHistory
  \/ \E f \in {"none", "connect"} : GetCall(Caller, f) /\ NoHistory
  \/ \E id \in DOMAIN services, f \in {"none", "open", "query"} :
        GetVisit(Caller, id, f) /\ NoHistory
  \/ GetReturn(Caller) /\ NoHistory
  \/ AsyncSave /\ NoHistory
  \/ \E d \in TickSteps : Tick(d) /\ NoHistory

QuerySpec == Init /\ [][QueryNext]_vars

(* ---------------------------------------------------------------------- *)
(* Specification: the waits under their deadline                            *)
(* ---------------------------------------------------------------------- *)
\* The goroutine of a call keeps running: every step of StartService,
\* StopService and DeleteService is taken when it stays possible.  The OS
\* and the wrappers are under no such obligation.
WaitStartCall == \E id \in CallIds : StartCall(Caller, id, "none") /\ NoHistory
WaitAutoStart == \E id \in tasks : AutoStart(id, "none") /\ NoHistory
WaitStartWait ==
  \E p \in AllProcs, f \in {"none", "query", "deadline"} :
    DeadlinePassed(p, f) /\ StartWait(p, f) /\ NoHistory
WaitStartFinish == \E p \in AllProcs : StartFinish(p, "none") /\ NoHistory
WaitStopCall == \E id \in CallIds : StopCall(Caller, id, "none") /\ NoHistory
WaitStopWait ==
  \E f \in {"none", "query", "deadline"} :
    DeadlinePassed(Caller, f) /\ StopWait(Caller, f) /\ NoHistory
WaitDeleteCall == \E id \in CallIds : DeleteCall(Caller, id, "none") /\ NoHistory
WaitDeleteWait ==
  \E f \in {"none", "query", "deadline"} :
    DeadlinePassed(Caller, f) /\ DeleteWait(Caller, f) /\ NoHistory
WaitDeleteFinish == \E f \in {"none", "delete"} : DeleteFinish(Caller, f) /\ NoHistory

WaitNext ==
  \/ \E cfg \in Configs : Room /\ CreateCall(Caller, cfg) /\ NoHistory
  \/ CreateScm(Caller, "none") /\ NoHistory
  \/ CreateWrap(Caller, "none") /\ NoHistory
  \/ WaitStartCall
  \/ WaitAutoStart
  \/ WaitStartWait
  \/ WaitStartFinish
  \/ WaitStopCall
  \/ WaitStopWait
  \/ WaitDeleteCall
  \/ WaitDeleteWait
  \/ WaitDeleteFinish
  \/ OSStep /\ NoHistory
  \/ \E d \in TickSteps : Tick(d) /\ NoHistory

\* a pass whose Query is answered, until the deadline has passed
OnTime(p, f) == f = (IF loc[p].polls >= MaxPolls THEN "deadline" ELSE "none")

StartWaitOnTime ==
  \E p \in AllProcs, f \in {"none", "deadline"} :
    OnTime(p, f) /\ StartWait(p, f) /\ NoHistory
StopWaitOnTime ==
  \E f \in {"none", "deadline"} :
    OnTime(Caller, f) /\ StopWait(Caller, f) /\ NoHistory
DeleteWaitOnTime ==
  \E f \in {"none", "deadline"} :
    OnTime(Caller, f) /\ DeleteWait(Caller, f) /\ NoHistory

\* fairness is asked of the passes that meet no failure only: a failure
\* may end a wait, none has to
WaitFairness ==
  /\ WF_vars(StartWaitOnTime)
  /\ WF_vars(WaitStartFinish)
  /\ WF_vars(StopWaitOnTime)
  /\ WF_vars(DeleteWaitOnTime)
  /\ WF_vars(WaitDeleteFinish)

WaitSpec == Init /\ [][WaitNext]_vars /\ WaitFairness

(* ---------------------------------------------------------------------- *)
(* Specification: the status cache on its own                               *)
(* ---------------------------------------------------------------------- *)
\* keys and values the manager hands to the cache
CacheKeys == { generateServiceName(n, t) : n \in Names, t \in 0..1 }

CacheValues ==
  { [status |-> "running", pid |-> p] : p \in PIDs }
    \cup { [status |-> "stopped", pid |-> 0] }

\* what Get hands back: (status, true) or (nil, false)
GetResult(id) ==
  IF CacheFound(id)
  THEN [found |-> TRUE, status |-> cache[id].status, pid |-> cache[id].pid]
  ELSE [found |-> FALSE, status |-> "", pid |-> 0]

CacheOpFrame ==
  UNCHANGED <<services, snapshot, mutex, cacheMutex, osdb, pc, loc, tasks,
              savePending, now, issued, stoppedOK, osSince>>
  /\ NoSupervisor

\* ServiceStatusCache.Get
Get(id) ==
  /\ returned' = <<[op |-> "cacheGet", id |-> id, err |-> "ok", list |-> {},
                    got |-> GetResult(id)]>>
  /\ emitted' = <<>>
  /\ scmLog' = <<>>
  /\ UNCHANGED <<cache, lastSet>>
  /\ CacheOpFrame

\* ServiceStatusCache.Set
Set(id, status, pid) ==
  /\ cache' = CacheSet(cache, id, status, pid)
  /\ lastSet' = Put(lastSet, id,
                    [status |-> status, pid |-> pid, at |-> now, seen |-> "new"])
  /\ returned' = <<[op |-> "cacheSet", id |-> id, err |-> "ok", list |-> {}]>>
  /\ emitted' = <<>>
  /\ scmLog' = <<>>
  /\ CacheOpFrame

\* ServiceStatusCache.Remove
Remove(id) ==
  /\ cache' = CacheRemove(cache, id)
  /\ lastSet' = Drop(lastSet, id)
  /\ returned' = <<[op |-> "cacheRemove", id |-> id, err |-> "ok", list |-> {}]>>
  /\ emitted' = <<>>
  /\ scmLog' = <<>>
  /\ CacheOpFrame

\* ServiceStatusCache.Clear
Clear ==
  /\ cache # EmptyMap
  /\ cache' = EmptyMap
  /\ lastSet' = EmptyMap
  /\ returned' = <<[op |-> "cacheClear", id |-> NoId, err |-> "ok", list |-> {}]>>
  /\ emitted' = <<>>
  /\ scmLog' = <<>>
  /\ CacheOpFrame

\* the ticker of StartCleanupRoutine fires: CleanExpired; the history notes
\* for each entry that was there whether the sweep took it
Sweep ==
  /\ CleanExpired
  /\ lastSet' = [id \in DOMAIN lastSet |->
                   IF id \in DOMAIN cache
                   THEN [lastSet[id] EXCEPT
                           !.seen = IF id \in DOMAIN cache' THEN "kept" ELSE "swept"]
                   ELSE lastSet[id]]
  /\ UNCHANGED <<issued, stoppedOK, osSince>>
  /\ NoSupervisor
  /\ NoCacheLock

CacheNext ==
  \/ \E id \in CacheKeys : Get(id)
  \/ \E id \in CacheKeys : \E v \in CacheValues : Set(id, v.status, v.pid)
  \/ \E id \in CacheKeys : Remove(id)
  \/ Clear
  \/ Sweep
  \/ \E d \in LiveTickSteps : Tick(d) /\ NoHistory

CacheSpec == Init /\ [][CacheNext]_vars

(* ---------------------------------------------------------------------- *)
(* Properties                                                              *)
(* ---------------------------------------------------------------------- *)
\* a StartService / StopService call that returned from its first step
\* (it was not inside a wait)
NotWaiting == \A p \in AllProcs : pc[p] \notin {"s_wait", "s_fin", "t_wait"}

\* the record apart from its updatedAt
SansUpdatedAt(service) == [service EXCEPT !.updatedAt = 0]

\* C1: every record whose status is stopped or error has pid = 0.
C1_StoppedOrErrorHasNoPid ==
  \A id \in DOMAIN services :
    services[id].status \in {"stopped", "error"} => services[id].pid = 0

\* C5: StartService on a registered service whose OS state is Running
\* returns AlreadyRunning (unless the SCM could not be reached at all); in
\* every case no start request is sent and the registry, the status cache,
\* the snapshot and the OS database stay as they were, with no event emitted.
C5_StartOnRunningChangesNothing ==
  [][\A r \in Results' :
       ( /\ r.op = "start"
         /\ NotWaiting
         /\ r.id \in DOMAIN services
         /\ r.id \in DOMAIN osdb
         /\ osdb[r.id].state = "Running" )
       => /\ r.err \in {"AlreadyRunning"} \cup ScmFailures
          /\ "Start" \notin Calls'
          /\ services' = services
          /\ cache' = cache
          /\ snapshot' = snapshot
          /\ osdb' = osdb
          /\ emitted' = <<>>]_vars

\* a StartService call has just been refused with AlreadyRunning, while the
\* record said something else than the OS
C5_Witness ==
  \E r \in Results :
    /\ r.op = "start"
    /\ r.err = "AlreadyRunning"
    /\ osdb[r.id].state = "Running"
    /\ services[r.id].status = "stopped"

\* C6: StopService on a registered service whose OS state is Stopped
\* succeeds (unless the SCM could not be reached) without sending a stop
\* control; the record keeps every field but status = stopped, pid = 0 and a
\* fresh updatedAt, so a second application changes nothing but updatedAt.
C6_StopOnStoppedIsNoop ==
  [][\A r \in Results' :
       ( /\ r.op = "stop"
         /\ NotWaiting
         /\ r.id \in DOMAIN services
         /\ r.id \in DOMAIN osdb
         /\ osdb[r.id].state = "Stopped" )
       => /\ r.err \in {"ok"} \cup ScmFailures
          /\ "Control" \notin Calls'
          /\ osdb' = osdb
          /\ r.err = "ok" =>
               /\ services'[r.id].status = "stopped"
               /\ services'[r.id].pid = 0
               /\ SansUpdatedAt(services'[r.id]) =
                    [SansUpdatedAt(services[r.id]) EXCEPT !.status = "stopped",
                                                          !.pid = 0]
               /\ (services[r.id].status = "stopped" /\ services[r.id].pid = 0)
                    => SansUpdatedAt(services'[r.id]) = SansUpdatedAt(services[r.id])]_vars

\* a StopService call has just succeeded after the query alone, on a record
\* refreshed at a later second than its creation
C6_Witness ==
  \E r \in Results :
    /\ r.op = "stop"
    /\ r.err = "ok"
    /\ scmLog = <<"Connect", "OpenService", "Query">>
    /\ services[r.id].status = "stopped"
    /\ services[r.id].updatedAt > services[r.id].createdAt

\* C9: when DeleteService returns success the id is gone from the registry,
\* the OS database, the status cache and the list GetServices would return;
\* while DeleteService runs and when it returns an error the registry is
\* unchanged, the record of the id included.
C9_DeleteRemovesOrKeeps ==
  [][/\ \A r \in Results' :
          (r.op = "delete" /\ r.err = "ok")
          => /\ r.id \in DOMAIN services
             /\ r.id \notin DOMAIN services'
             /\ r.id \notin DOMAIN osdb'
             /\ r.id \notin DOMAIN cache'
             /\ \A e \in ListOf(services') : e.id # r.id
     /\ \A r \in Results' :
          (r.op = "delete" /\ r.err # "ok")
          => /\ services' = services
             /\ (r.err # "NotFound" => r.id \in DOMAIN services')
     /\ \A p \in Procs :
          (pc[p] \in {"d_wait", "d_del"} /\ pc'[p] # "idle")
          => (services' = services /\ loc[p].id \in DOMAIN services')]_vars

\* DeleteService has just succeeded: the id is in neither the registry nor
\* the cache
C9_Witness ==
  /\ \E r \in Results :
       /\ r.op = "delete"
       /\ r.err = "ok"
       /\ r.id \notin DOMAIN services
       /\ r.id \notin DOMAIN cache
  /\ scmLog = <<"Delete">>

\* C2: no id is returned by two successful CreateService calls.
C2_IdNeverReused ==
  \A id \in DOMAIN issued : issued[id] <= 1

\* C7: once StopService(id) has returned success and no StartService of id
\* has begun since, every list GetServices returns shows id as stopped with
\* pid = 0.
C7_StoppedStaysStopped ==
  \A r \in Results :
    (r.op = "list" /\ r.err = "ok")
    => \A e \in r.list :
         e.id \in stoppedOK => (e.status = "stopped" /\ e.pid = 0)

\* C3: a CreateService call whose generated id is held by a registry entry
\* returns AlreadyExists and leaves the registry as it was; no call is ever
\* past the existence check with an id the registry holds, so a call that
\* inserts a record replaces none and changes no other record.
C3_CreateNeverOverwrites ==
  [][/\ \A p \in Procs :
          pc'[p] \in {"c_scm", "c_wrap"} => loc'[p].id \notin DOMAIN services'
     /\ \A r \in Results' :
          (r.op = "create" /\ r.id \in DOMAIN services)
          => (r.err = "AlreadyExists" /\ services' = services)
     /\ \A r \in Results' :
          r.op = "create"
          => \A id \in DOMAIN services :
               id \in DOMAIN services' /\ services'[id] = services[id]]_vars

\* a CreateService call has just been refused with AlreadyExists, in the
\* second in which the record holding its id was created
C3_Witness ==
  \E r \in Results :
    /\ r.op = "create"
    /\ r.err = "AlreadyExists"
    /\ r.id \in DOMAIN services
    /\ services[r.id].createdAt = now
    /\ r.id.ts = now

\* wd is the directory holding the file at path
IsDirectoryOf(wd, path) == Len(path) > 1 /\ wd \o <<path[Len(path)]>> = path

\* C4: when CreateService(config) returns success, the registry has gained
\* exactly the record of the returned id and every other record is as it
\* was; the new record is stopped with pid = 0, carries the given name,
\* exePath and args, and its workingDir is config.workingDir, or the
\* directory of exePath when config.workingDir is empty.
C4_CreatedRecord ==
  [][\A r \in Results' :
       (r.op = "create" /\ r.err = "ok")
       => \E p \in Procs :
            /\ pc[p] = "c_wrap"
            /\ loc[p].id = r.id
            /\ r.id \notin DOMAIN services
            /\ DOMAIN services' = DOMAIN services \cup {r.id}
            /\ \A i \in DOMAIN services : services'[i] = services[i]
            /\ services'[r.id].id = r.id
            /\ services'[r.id].status = "stopped"
            /\ services'[r.id].pid = 0
            /\ services'[r.id].name = loc[p].cfg.name
            /\ services'[r.id].exePath = loc[p].cfg.exePath
            /\ services'[r.id].args = loc[p].cfg.args
            /\ IF loc[p].cfg.workingDir # <<>>
               THEN services'[r.id].workingDir = loc[p].cfg.workingDir
               ELSE IsDirectoryOf(services'[r.id].workingDir, loc[p].cfg.exePath)]_vars

\* a second service has just been created next to a running one, with its
\* working directory defaulted
C4_Witness ==
  \E r \in Results :
    /\ r.op = "create"
    /\ r.err = "ok"
    /\ services[r.id].workingDir = <<"C:", "srv">>
    /\ services[r.id].exePath = RunExe
    /\ \E other \in DOMAIN services :
         other # r.id /\ services[other].status = "running"

\* a GetServices pass over the service id
Visits(p, id) ==
  /\ pc[p] = "g_iter"
  /\ id \in loc[p].todo
  /\ id \notin loc'[p].todo

\* C10 as stated: whenever GetServices comes to a registered service that
\* is gone from the OS service database, it records status = error, pid = 0.
C10_VanishedReportedAsError ==
  [][\A p \in Procs, id \in DOMAIN services :
       (Visits(p, id) /\ id \notin DOMAIN osdb)
       => (services'[id].status = "error" /\ services'[id].pid = 0)]_vars

\* C10: when GetServices asks the OS about a registered service (the cache
\* holds no entry of at most TTL seconds for it) and OpenService or Query
\* fails, the pass goes on without an error, the record becomes status =
\* error, pid = 0 and stays in the registry, the other records are not
\* touched, and the list finally returned is the registry's records; a
\* GetServices past its connect never returns an error.
C10_QueryFailureReportedAsError ==
  [][/\ \A p \in Procs, id \in DOMAIN services :
          ( /\ Visits(p, id)
            /\ ~CacheFound(id)
            /\ (id \notin DOMAIN osdb \/ Calls' \cap {"OpenService!", "Query!"} # {}) )
          => /\ id \in DOMAIN services'
             /\ services'[id].status = "error"
             /\ services'[id].pid = 0
             /\ DOMAIN services' = DOMAIN services
             /\ \A j \in DOMAIN services \ {id} : services'[j] = services[j]
             /\ pc'[p] = "g_iter"
             /\ returned' = <<>>
     /\ \A p \in Procs :
          pc[p] = "g_iter"
          => \A r \in Results' :
               /\ r.op = "list"
               /\ r.err = "ok"
               /\ r.list = ListOf(services)
               /\ services' = services]_vars

\* GetServices has just returned a list showing a service gone from the OS
\* database as error with pid 0 next to a running one
C10_Witness ==
  \E r \in Results :
    /\ r.op = "list"
    /\ r.err = "ok"
    /\ \E e \in r.list :
         e.id \notin DOMAIN osdb /\ e.status = "error" /\ e.pid = 0
    /\ \E e \in r.list :
         e.id \in DOMAIN osdb /\ e.status = "running" /\ e.pid # 0

\* GetServices has just listed id as running with a pid
ListedRunning(id) ==
  \E r \in Results :
    /\ r.op = "list"
    /\ r.err = "ok"
    /\ \E e \in r.list : e.id = id /\ e.status = "running" /\ e.pid # 0

\* C8: after a successful CreateService for a target that launches and
\* keeps running, the automatic StartService is eventually under way and
\* GetServices eventually lists the new id as running with a non-zero pid.
C8_AutoStartLeadsToRunning ==
  \A id \in ServiceIds :
    /\ (id \in CreatedNow) ~> (pc[AutoProc] = "s_wait" /\ loc[AutoProc].id = id)
    /\ (id \in CreatedNow) ~> ListedRunning(id)

\* GetServices has just listed as running a service nobody but the
\* automatic start has started, from the OS rather than from the cache
C8_Witness ==
  \E id \in DOMAIN services :
    /\ ListedRunning(id)
    /\ tasks = {}
    /\ osdb[id].state = "Running"
    /\ cache[id].age > 0
    /\ services[id].updatedAt > services[id].createdAt

\* C11: DeleteService on a registered id whose OS service is gone from the
\* OS service database (the SCM itself answering) removes the id from the
\* registry.
C11_VanishedCanBeDeleted ==
  [][\A r \in Results' :
       ( /\ r.op = "delete"
         /\ r.id \in DOMAIN services
         /\ r.id \notin DOMAIN osdb
         /\ r.err # "ConnectError" )
       => (r.err = "ok" /\ r.id \notin DOMAIN services')]_vars

\* some CreateService call is past scm.CreateService for id
Creating(id) == \E p \in Procs : pc[p] = "c_wrap" /\ loc[p].id = id

C13_MissingExeRejectedFirst ==
  [][/\ \A p \in Procs, cfg \in Configs :
          (cfg.exePath \notin OnDisk /\ CreateCall(p, cfg))
          => /\ Results' = {[op |-> "create", id |-> NoId,
                             err |-> "ValidationError", list |-> {}]}
             /\ scmLog' = <<>>
             /\ osdb' = osdb
             /\ services' = services
             /\ snapshot' = snapshot
             /\ cache' = cache
             /\ emitted' = <<>>
             /\ tasks' = tasks
             /\ pc'[p] = "idle"
     /\ \A p \in Procs :
          pc'[p] \in {"c_scm", "c_wrap"} => loc'[p].cfg.exePath \in OnDisk
     /\ \A id \in DOMAIN services' : services'[id].exePath \in OnDisk]_vars

\* CreateService has just returned the validation error, at a later second,
\* with nothing in the OS database or the registry
C13_Witness ==
  /\ \E r \in Results : r.op = "create" /\ r.err = "ValidationError"
  /\ osdb = EmptyMap
  /\ services = EmptyMap
  /\ now > 0

\* the operations that look an id up in the registry
LookupOps == {"start", "stop", "delete", "autostart"}

\* C14: StartService, StopService, DeleteService and SetServiceAutoStart
\* called with an id the registry does not hold return NotFound; the SCM is
\* not connected to, and the registry, the status cache, the snapshot and the
\* OS service database are as before, with no event emitted.
C14_UnknownIdIsNotFound ==
  [][\A r \in Results' :
       (r.op \in LookupOps /\ r.id \notin DOMAIN services)
       => /\ r.err = "NotFound"
          /\ scmLog' = <<>>
          /\ services' = services
          /\ cache' = cache
          /\ snapshot' = snapshot
          /\ osdb' = osdb
          /\ emitted' = <<>>]_vars

\* SetServiceAutoStart has just returned NotFound for an id the registry
\* does not hold, next to a service that is running
C14_Witness ==
  /\ \E r \in Results :
       /\ r.op = "autostart"
       /\ r.err = "NotFound"
       /\ r.id \notin DOMAIN services
  /\ scmLog = <<>>
  /\ \E id \in DOMAIN services \cap DOMAIN osdb : osdb[id].state = "Running"

(* ---------------------------------------------------------------------- *)
(* C15: the statuses the wrapper supervisor reports                        *)
(* ---------------------------------------------------------------------- *)
IsOwn(r) == ~r.echo

IsEcho(r) == r.echo

States(seq) == [i \in 1..Len(seq) |-> seq[i].state]

\* the statuses Execute reported on its own, in order
OwnStatuses == States(SelectSeq(statuses, IsOwn))

IsPrefix(a, b) == Len(a) <= Len(b) /\ \A i \in 1..Len(a) : a[i] = b[i]

StopDelivered == \E i \in 1..Len(delivered) : delivered[i] \in {"Stop", "Shutdown"}

StoppedOnRequest == <<"StartPending", "Running", "StopPending", "Stopped">>

StoppedOnExit == <<"StartPending", "Running", "Stopped">>

FailedToStart == <<"StartPending", "Stopped">>

\* C15 as stated: once Execute has returned, everything it sent is
\* start-pending, running, stop-pending, stopped with exit code 0 when the
\* target was spawned and a stop or shutdown request arrived, and
\* start-pending, stopped with a non-zero exit code when it was not spawned.
C15_ExactSequence ==
  execute.pc = "done" =>
    /\ (esw.process # "none" /\ StopDelivered) =>
         (States(statuses) = StoppedOnRequest /\ execute.exitCode = 0)
    /\ esw.process = "none" =>
         (States(statuses) = FailedToStart /\ execute.exitCode # 0)

\* C15 amended: leaving aside what Execute sends back for interrogate, each
\* a copy of a state reported earlier, the statuses are a prefix of one of
\* the three runs at every moment, and once Execute has returned they are
\* start-pending, running, stop-pending, stopped with exit code 0 when a stop
\* or shutdown arrived, start-pending, stopped with exit code 1 when the
\* target could not be spawned.
C15_ExactApartFromEchoes ==
  /\ \/ IsPrefix(OwnStatuses, StoppedOnRequest)
     \/ IsPrefix(OwnStatuses, StoppedOnExit)
     \/ IsPrefix(OwnStatuses, FailedToStart)
  /\ \A i \in 1..Len(statuses) :
       statuses[i].echo => \E j \in 1..(i-1) : statuses[j].state = statuses[i].state
  /\ Len(SelectSeq(statuses, IsEcho)) <= Len(delivered)
  /\ execute.pc = "done" =>
       /\ (esw.process # "none" /\ StopDelivered) =>
            (OwnStatuses = StoppedOnRequest /\ execute.exitCode = 0)
       /\ (esw.process # "none" /\ ~StopDelivered) =>
            (OwnStatuses = StoppedOnExit /\ execute.exitCode = 0)
       /\ esw.process = "none" =>
            (statuses = <<Report("StartPending"), Report("Stopped")>>
             /\ execute.exitCode = 1)
  /\ execute.pc # "done" => (OwnStatuses = <<>> \/ OwnStatuses[Len(OwnStatuses)] # "Stopped")

\* a run stopped on request in which an interrogate was answered on the way
C15_Witness ==
  /\ execute.pc = "done"
  /\ StopDelivered
  /\ OwnStatuses = StoppedOnRequest
  /\ \E i \in 1..Len(statuses) : statuses[i].echo

(* ---------------------------------------------------------------------- *)
(* C16: the target exits on its own                                        *)
(* ---------------------------------------------------------------------- *)
\* Execute is in its loop, the target has exited, nobody asked for a stop
TargetExitedUnasked ==
  /\ execute.pc = "loop"
  /\ esw.process = "exited"
  /\ ~StopDelivered

\* Execute has returned 0 with stopped as its last report and no stop-pending
EndedByItself ==
  /\ execute.pc = "done"
  /\ execute.exitCode = 0
  /\ statuses[Len(statuses)] = Report("Stopped")
  /\ \A i \in 1..Len(statuses) : statuses[i].state # "StopPending"

\* C16: when the target has exited on its own while Execute is in its loop
\* and no stop or shutdown request has arrived, Execute eventually reports
\* stopped, without stop-pending, and returns 0 (unless a stop or shutdown
\* request arrives first); and Execute never returns from a run without
\* such a request having reported stop-pending or with another exit code.
C16_OwnExitEndsService ==
  /\ TargetExitedUnasked ~> (EndedByItself \/ StopDelivered)
  /\ [](execute.pc = "done" /\ esw.process # "none" /\ ~StopDelivered
          => EndedByItself /\ esw.process = "exited")

\* Execute has returned after the target exited with no stop request
C16_Witness ==
  /\ EndedByItself
  /\ esw.process = "exited"
  /\ ~StopDelivered
  /\ OwnStatuses = StoppedOnExit

(* ---------------------------------------------------------------------- *)
(* C17: a stop or shutdown request is not skipped                          *)
(* ---------------------------------------------------------------------- *)
\* Execute is in its loop and a stop or shutdown request waits in r
StopWaiting ==
  /\ execute.pc = "loop"
  /\ \E i \in 1..Len(requests) : requests[i].cmd \in {"Stop", "Shutdown"}

\* stop-pending was reported, the target is gone, stopped was reported last
StoppedAsAsked ==
  /\ execute.pc = "done"
  /\ execute.exitCode = 0
  /\ esw.process \in {"killed", "exited"}
  /\ ~esw.isRunning
  /\ \E i \in 1..(Len(statuses) - 1) : statuses[i] = Report("StopPending")
  /\ statuses[Len(statuses)] = Report("Stopped")

\* C17: a stop or shutdown request that waits while Execute is in its loop
\* leads to stop-pending reported, the target terminated and stopped
\* reported; while the monitor goroutine waits for the target, the loop can
\* still take a pass, and a pass made while a request waits reads it.
C17_StopIsNotSkipped ==
  /\ StopWaiting ~> StoppedAsAsked
  /\ [](execute.pc = "loop" /\ requests # <<>> => ENABLED <<ExecuteSelect>>_vars)
  /\ [][execute.pc = "loop" /\ requests # <<>> /\ execute' # execute
          => requests' = Tail(requests) /\ execute'.pc = "stop"]_vars

\* Execute has returned after killing a target that was still alive
C17_Witness ==
  /\ StoppedAsAsked
  /\ esw.process = "killed"
  /\ delivered[Len(delivered)] \in {"Stop", "Shutdown"}

(* ---------------------------------------------------------------------- *)
(* C18: Get and Set of the status cache                                    *)
(* ---------------------------------------------------------------------- *)
\* what the Get or Set of the latest step returned
GetResults == {r \in Results : r.op = "cacheGet"}

SetResults == {r \in Results : r.op = "cacheSet"}

\* seconds since the latest Set of id
SinceSet(id) == now - lastSet[id].at

\* C18: Get(id) answers found exactly when an entry for id is in the cache
\* and the latest Set of id is at most 5 s old, and then hands back the
\* status and pid of that Set; right after Set(id, status, pid) the entry
\* holds these values with the current time; Get removes nothing, so an
\* entry older than 5 s is answered with found = false while it is still in
\* the cache.
C18_GetAndSet ==
  /\ [](\A r \in GetResults :
          /\ r.got.found <=>
               (r.id \in DOMAIN cache /\ r.id \in DOMAIN lastSet
                  /\ SinceSet(r.id) <= TTL)
          /\ r.got.found =>
               (r.got.status = lastSet[r.id].status /\ r.got.pid = lastSet[r.id].pid)
          /\ ~r.got.found => (r.got.status = "" /\ r.got.pid = 0))
  /\ [](\A r \in SetResults :
          /\ r.id \in DOMAIN cache
          /\ cache[r.id] = [status |-> lastSet[r.id].status,
                            pid |-> lastSet[r.id].pid, age |-> 0]
          /\ lastSet[r.id].at = now
          /\ GetResult(r.id) = [found |-> TRUE, status |-> lastSet[r.id].status,
                                pid |-> lastSet[r.id].pid])
  /\ [][GetResults' # {} => cache' = cache]_vars

\* a Get answered found = false for an entry that is still in the cache
C18_Witness ==
  \E r \in GetResults :
    /\ ~r.got.found
    /\ r.id \in DOMAIN cache
    /\ SinceSet(r.id) = TTL + 1

(* ---------------------------------------------------------------------- *)
(* C19: CleanExpired                                                       *)
(* ---------------------------------------------------------------------- *)
\* C19: a sweep removes the entries whose latest Set is more than 5 s old
\* and no other; every entry it leaves keeps its status, pid and timestamp;
\* an entry Get would answer with found = true stays; and nothing but
\* Remove, Clear and CleanExpired takes an entry out of the cache.
C19_SweepRemovesOnlyExpired ==
  /\ [][Sweep =>
          /\ DOMAIN cache' = {id \in DOMAIN cache : SinceSet(id) <= TTL}
          /\ \A id \in DOMAIN cache' : cache'[id] = cache[id]
          /\ \A id \in DOMAIN cache :
               CacheFound(id) => (id \in DOMAIN cache' /\ GetResult(id)' = GetResult(id))
          /\ \A id \in DOMAIN cache \ DOMAIN cache' : ~CacheFound(id)]_vars
  /\ [](\A id \in DOMAIN lastSet :
          /\ lastSet[id].seen = "kept" => id \in DOMAIN cache
          /\ lastSet[id].seen = "swept" => (id \notin DOMAIN cache /\ SinceSet(id) > TTL)
          /\ lastSet[id].seen = "new" => id \in DOMAIN cache)

\* a sweep has taken one entry and left another, which Get still finds
C19_Witness ==
  \E a, b \in DOMAIN lastSet :
    /\ lastSet[a].seen = "swept"
    /\ lastSet[b].seen = "kept"
    /\ CacheFound(b)
    /\ cache[b].age = TTL

(* ---------------------------------------------------------------------- *)
(* C20: saving and loading the registry                                    *)
(* ---------------------------------------------------------------------- *)
StartupResults == {r \in Results : r.op = "startup"}

C21_StatusChangeEmits ==
  [][/\ \A r \in Results' :
          (/\ r.op \in {"start", "stop"}
           /\ r.id \in DOMAIN services
           /\ r.id \in DOMAIN services'
           /\ services'[r.id].status # services[r.id].status)
          => \E e \in Events' :
               /\ e.type = "service-status-changed"
               /\ e.serviceId = r.id
               /\ e.status = services'[r.id].status
               /\ e.pid = services'[r.id].pid
     /\ Len(emitted') <= 1]_vars

(* ---------------------------------------------------------------------- *)
(* C22: services-updated                                                   *)
(* ---------------------------------------------------------------------- *)
UpdatedEvents == {e \in Events : e.type = "services-updated"}

\* C22: a step in which CreateService or DeleteService returns success has
\* changed the registry and emits one event, a services-updated carrying
\* the registry as it is after the change; a step in which one of them
\* returns an error emits nothing; and no other step emits services-updated.
C22_ListEventPerChange ==
  [][/\ \A r \in Results' :
          r.op \in {"create", "delete"} =>
            IF r.err = "ok"
            THEN /\ services' # services
                 /\ (r.op = "create") = (r.id \in DOMAIN services')
                 /\ Len(emitted') = 1
                 /\ emitted'[1].type = "services-updated"
                 /\ emitted'[1].services = services'
            ELSE /\ emitted' = <<>>
                 /\ services' = services
     /\ UpdatedEvents' # {} =>
          \E r \in Results' : r.op \in {"create", "delete"} /\ r.err = "ok"]_vars

\* a delete has just succeeded and its event carries the registry without
\* the service
C22_Witness ==
  \E r \in Results :
    /\ r.op = "delete"
    /\ r.err = "ok"
    /\ r.id \notin DOMAIN services
    /\ \E e \in UpdatedEvents : e.services = services

(* ---------------------------------------------------------------------- *)
(* C23: the status query                                                   *)
(* ---------------------------------------------------------------------- *)
\* the services GetServices asked the OS about in this step, with success
Queried ==
  IF pc[Caller] = "g_iter" /\ scmLog' = <<"OpenService", "Query">>
  THEN loc[Caller].todo \ loc'[Caller].todo
  ELSE {}

\* C23: when the status query has asked the OS about a service, the status
\* and pid it gives the record are (running, OS pid) for running,
\* (stopped, 0) for stopped, (starting, 0) for start-pending,
\* (stopping, OS pid) for stop-pending and (error, 0) for every other state,
\* and the cache entry of the service holds the same status and pid, fresh.
C23_StatusMapping ==
  [][\A id \in Queried :
       LET state == osdb[id].state
           processId == osdb[id].pid
           got == [status |-> services'[id].status, pid |-> services'[id].pid]
       IN
         /\ state = "Running" => got = [status |-> "running", pid |-> processId]
         /\ state = "Stopped" => got = [status |-> "stopped", pid |-> 0]
         /\ state = "StartPending" => got = [status |-> "starting", pid |-> 0]
         /\ state = "StopPending" => got = [status |-> "stopping", pid |-> processId]
         /\ state \notin {"Running", "Stopped", "StartPending", "StopPending"}
              => got = [status |-> "error", pid |-> 0]
         /\ id \in DOMAIN cache'
         /\ cache'[id] = [status |-> got.status, pid |-> got.pid, age |-> 0]]_vars

\* the OS was asked about a paused service with a process id
C23_Witness ==
  /\ scmLog = <<"OpenService", "Query">>
  /\ \E id \in DOMAIN services \cap DOMAIN osdb :
       /\ osdb[id].state = "Paused"
       /\ osdb[id].pid # 0
       /\ services[id].status = "error"
       /\ services[id].pid = 0
       /\ id \in DOMAIN cache
       /\ cache[id] = [status |-> "error", pid |-> 0, age |-> 0]

(* ---------------------------------------------------------------------- *)
(* C24: what ends waitForServiceState                                      *)
(* ---------------------------------------------------------------------- *)
\* p makes a pass of the wait loop in this step, at label l, and its Query
\* is answered
Polls(p, l) ==
  /\ pc[p] = l
  /\ scmLog' = <<"Query">>
  /\ \A r \in Results' : r.err # "QueryError"

\* C24: a pass of the wait for running that sees the OS state stopped ends
\* the call in that step with the start failure, which is not the timeout
\* error; the wait for running succeeds only in a pass that sees running and
\* the wait for stopped only in a pass that sees stopped; a pass of the wait
\* for stopped that sees any other state goes on waiting, and so does a pass
\* of the wait for running that sees neither running nor stopped.
C24_WaitEndings ==
  [][\A p \in AllProcs :
       LET state == osdb[loc[p].id].state IN
         /\ (Polls(p, "s_wait") /\ state = "Stopped") =>
              /\ pc'[p] = "idle"
              /\ \E r \in Results' : r.op = "start" /\ r.err = "StartFailed"
              /\ \A r \in Results' : r.err # "Timeout"
         /\ (pc[p] = "s_wait" /\ pc'[p] = "s_fin") =>
              (state = "Running" /\ scmLog' = <<"Query">>)
         /\ (Polls(p, "s_wait") /\ state \notin {"Running", "Stopped"}) =>
              pc'[p] = "s_wait"
         /\ (pc[p] = "t_wait" /\ \E r \in Results' : r.op = "stop" /\ r.err = "ok") =>
              (state = "Stopped" /\ scmLog' = <<"Query">>)
         /\ (Polls(p, "t_wait") /\ state # "Stopped") => pc'[p] = "t_wait"
         /\ (pc[p] \in {"s_wait", "t_wait"} /\ \E r \in Results' : r.err = "Timeout") =>
              (scmLog' = <<>> /\ loc[p].polled)]_vars

\* a StartService call has just returned the start failure for a service
\* the OS shows stopped
C24_Witness ==
  \E r \in Results :
    /\ r.op = "start"
    /\ r.err = "StartFailed"
    /\ r.id \in DOMAIN osdb
    /\ osdb[r.id].state = "Stopped"
    /\ scmLog = <<"Query">>

(* ---------------------------------------------------------------------- *)
(* C25: waitForServiceState ends                                           *)
(* ---------------------------------------------------------------------- *)
InsideCall(p) == pc[p] \in {"s_wait", "s_fin", "t_wait", "d_wait", "d_del"}

\* C25: a StartService, StopService or DeleteService call that has reached
\* its wait returns and gives the registry lock back, whatever the OS does;
\* a wait never makes more passes than fit before its deadline; what ends
\* the wait of a start or stop is success, a query error, the start failure
\* or the timeout, and the timeout only when every pass before the deadline
\* has been made without seeing the target state.
C25_WaitTerminates ==
  /\ \A p \in AllProcs :
       InsideCall(p) ~> (pc[p] = "idle" /\ mutex.writer # p)
  /\ [](\A p \in AllProcs : loc[p].polls <= MaxPolls)
  /\ [][\A p \in AllProcs :
          /\ (pc[p] \in {"s_wait", "t_wait"} /\ pc'[p] = "idle") =>
               \E r \in Results' :
                 r.err \in {"ok", "QueryError", "StartFailed", "Timeout"}
          /\ (pc[p] \in {"s_wait", "t_wait"} /\ pc'[p] = "idle") =>
               mutex'.writer = NoProc
          /\ (pc[p] \in {"s_wait", "t_wait", "d_wait"} /\ loc[p].polls = MaxPolls) =>
               scmLog' # <<"Query">>]_vars

\* a call has just returned the timeout after the last pass before the
\* deadline, and the lock is free
C25_Witness ==
  /\ \E r \in Results : r.op \in {"start", "stop"} /\ r.err = "Timeout"
  /\ mutex.writer = NoProc
  /\ \A p \in AllProcs : pc[p] = "idle"

(* ---------------------------------------------------------------------- *)
(* C26: autoStart and the OS start type                                    *)
(* ---------------------------------------------------------------------- *)
NoOperation ==
  /\ \A p \in AllProcs : pc[p] = "idle"
  /\ mutex = [writer |-> NoProc, readers |-> {}]

\* C26: whenever no operation of the manager is under way, the autoStart
\* flag of every registered service that the OS knows is true exactly when
\* the start type of the OS service is automatic.
C26_AutoStartMatchesStartType ==
  NoOperation =>
    \A id \in DOMAIN services \cap DOMAIN osdb :
      services[id].autoStart <=> (osdb[id].startType = "automatic")

(* ---------------------------------------------------------------------- *)
(* C27: failures reach the caller                                          *)
(* ---------------------------------------------------------------------- *)
\* the step belongs to the goroutine CreateService left behind, which calls
\* wsm.StartService(serviceName) and drops what it returns
ByAutoStart == tasks' # tasks \/ pc[AutoProc] # "idle"

\* what the one who asked for the operation gets to see of its result:
\* App.GetServices turns an error into an empty list, the other App methods
\* hand the error on, the goroutine of CreateService looks at nothing
ShownToCaller(r, detached) ==
  IF detached THEN "nothing"
  ELSE IF r.op = "list" /\ r.err # "ok" THEN "ok"
  ELSE r.err

\* C27: whenever an operation of the manager ends in an error, the one who
\* asked for it is given an error.
C27_NoSilentFailure ==
  [][\A r \in Results' :
       r.err # "ok" => ShownToCaller(r, ByAutoStart) \notin {"ok", "nothing"}]_vars

(* ---------------------------------------------------------------------- *)
(* Specification: two callers using every operation of the manager         *)
(* ---------------------------------------------------------------------- *)
LockNext ==
  \/ \E p \in Procs, cfg \in LiveConfigs : Room /\ CreateCall(p, cfg) /\ NoHistory
  \/ \E p \in Procs : CreateScm(p, "none") /\ NoHistory
  \/ \E p \in Procs : CreateWrap(p, "none") /\ NoHistory
  \/ \E p \in Procs, id \in CallIds : StartCall(p, id, "none") /\ NoHistory
  \/ \E id \in tasks : AutoStart(id, "none") /\ NoHistory
  \/ \E p \in AllProcs : StartWait(p, "none") /\ NoHistory
  \/ \E p \in AllProcs : StartFinish(p, "none") /\ NoHistory
  \/ \E p \in Procs, id \in CallIds : StopCall(p, id, "none") /\ NoHistory
  \/ \E p \in Procs : StopWait(p, "none") /\ NoHistory
  \/ \E p \in Procs, id \in CallIds : DeleteCall(p, id, "none") /\ NoHistory
  \/ \E p \in Procs : DeleteWait(p, "none") /\ NoHistory
  \/ \E p \in Procs : DeleteFinish(p, "none") /\ NoHistory
  \/ \E p \in Procs, id \in CallIds, e \in BOOLEAN :
        SetServiceAutoStart(p, id, e, "none") /\ NoHistory
  \/ \E p \in Procs : GetCall(p, "none") /\ NoHistory
  \/ \E p \in Procs, id \in DOMAIN services : GetVisit(p, id, "none") /\ NoHistory
  \/ \E p \in Procs : GetReturn(p) /\ NoHistory
  \/ AsyncSave /\ NoHistory
  \/ OSStepOwn /\ NoHistory

LockSpec == Init /\ [][LockNext]_vars

(* ---------------------------------------------------------------------- *)
(* C28: the mutating operations exclude each other and GetServices         *)
(* ---------------------------------------------------------------------- *)
\* p is between Lock and Unlock of CreateService, StartService, StopService
\* or DeleteService
InWrite(p) ==
  pc[p] \in {"c_scm", "c_wrap", "s_wait", "s_fin", "t_wait", "d_wait", "d_del"}

\* p is between RLock and RUnlock of GetServices
InRead(p) == pc[p] = "g_iter"

MutatingOps == {"create", "start", "stop", "delete", "autostart"}

\* the step is a whole mutating call, Lock to Unlock, SetServiceAutoStart
\* among them
WholeCall == pc' = pc /\ \E r \in Results' : r.op \in MutatingOps

\* C28: under any interleaving of the callers at most one of CreateService,
\* StartService, StopService, DeleteService and SetServiceAutoStart is
\* between its Lock and its Unlock, the SCM round trip and the wait for the
\* state included, and no GetServices is between its RLock and its RUnlock
\* while one of them is.
C28_WritersExclude ==
  [][/\ \A p \in AllProcs :
          InWrite(p)' => \A q \in AllProcs \ {p} : pc'[q] = "idle"
     /\ WholeCall => \A q \in AllProcs : pc[q] = "idle"]_vars

\* one caller is waiting inside StartService, StopService or DeleteService
\* while the other one is calling
C28_Witness ==
  \E p \in AllProcs :
    /\ pc[p] \in {"s_wait", "t_wait", "d_wait"}
    /\ loc[p].polled
    /\ \E q \in Procs \ {p} : pc[q] = "idle"
    /\ savePending > 0

(* ---------------------------------------------------------------------- *)
(* C29: records are written under the write lock only                      *)
(* ---------------------------------------------------------------------- *)
\* the step belongs to the holder of the write lock: it takes the lock,
\* keeps it or gives it back, and no reader is inside
UnderWriteLock ==
  /\ mutex.readers = {}
  /\ mutex.writer # NoProc \/ mutex'.writer # NoProc \/ WholeCall

\* C29: every write to a field of a Service record (Status, PID, UpdatedAt,
\* AutoStart) and to the services map is made by the holder of the write
\* lock; GetServices, holding the read lock, writes nothing.
C29_WritesUnderWriteLock ==
  [][services' # services => UnderWriteLock]_vars

(* ---------------------------------------------------------------------- *)
(* C30: saves are serialized by the write lock                             *)
(* ---------------------------------------------------------------------- *)
\* the step is the saveServices goroutine left behind by GetServices
DetachedSave == savePending' < savePending

\* saveServices runs in this step
SaveRuns == snapshot' # snapshot \/ DetachedSave

\* C30: every execution of saveServices is serialized by the write lock: the
\* one of a mutating operation is made by the holder of the lock, and the one
\* started by GetServices does not read the registry while a goroutine is
\* between Lock and Unlock or between RLock and RUnlock, where records are
\* inserted, deleted or modified.
C30_SavesSerialized ==
  [][SaveRuns =>
       IF DetachedSave
       THEN \A p \in AllProcs : pc[p] = "idle"
       ELSE UnderWriteLock]_vars

(* ---------------------------------------------------------------------- *)
(* C31: the start after creation is detached                               *)
(* ---------------------------------------------------------------------- *)
\* the goroutine left behind by CreateService enters StartService in this step
AutoStartEnters == tasks' # tasks /\ tasks' \subseteq tasks

\* C31: CreateService inserts the record, saves, emits services-updated,
\* unlocks and returns without waiting for the start: when it returns success
\* the start is still to come (no Start sent, the OS entry not touched by it,
\* the goroutine not yet inside StartService), and that goroutine enters
\* StartService only when no caller holds the lock.
C31_AutoStartDetached ==
  [][/\ \A r \in Results' :
          r.op = "create" /\ r.err = "ok" =>
            /\ r.id \in DOMAIN services' \ DOMAIN services
            /\ snapshot'.exists /\ snapshot'.data = MarshalIndent(services')
            /\ \E i \in DOMAIN emitted' : emitted'[i].type = "services-updated"
            /\ mutex'.writer = NoProc
            /\ \A p \in AllProcs : pc'[p] = "idle" \/ pc'[p] = pc[p]
            /\ r.id \in tasks'
            /\ pc'[AutoProc] = pc[AutoProc]
            /\ "Start" \notin Calls'
            /\ osdb'[r.id].state = "Stopped"
     /\ AutoStartEnters =>
          /\ mutex.writer = NoProc
          /\ \A p \in Procs : ~InWrite(p) /\ ~InRead(p)]_vars

\* the goroutine is inside StartService for a service whose CreateService
\* has returned, while a caller is free to call
C31_Witness ==
  /\ pc[AutoProc] = "s_wait"
  /\ mutex.writer = AutoProc
  /\ loc[AutoProc].id \in DOMAIN services
  /\ \A p \in Procs : pc[p] = "idle"

(* ---------------------------------------------------------------------- *)
(* C32: the OS entry names the wrapper                                     *)
(* ---------------------------------------------------------------------- *)
\* C32: in every state, the ones inside CreateService included, the command
\* line of an OS service entry made by CreateService is the wrapper
\* invocation `<this program> --service-wrapper <id>`, never the target's
\* exePath and args.
C32_EntryNamesWrapper ==
  \A id \in DOMAIN osdb : osdb[id].imagePath = WrapperCommandLine(id)

(* ---------------------------------------------------------------------- *)
(* C33: DeleteService stops first, deletes anyway                          *)
(* ---------------------------------------------------------------------- *)
\* the stop, the wait and the delete proper, without the first conjunct
DeleteGoesOn ==
  /\ \A p \in Procs :
       pc[p] = "idle" /\ pc'[p] = "d_wait" =>
         /\ osdb[loc'[p].id].state # "Stopped"
         /\ "Control" \in Calls'
  /\ \A p \in Procs : pc[p] = "d_wait" => pc'[p] \in {"d_wait", "d_del"}
  /\ \A p \in Procs : pc[p] = "d_del" /\ pc'[p] = "idle" => "Delete" \in Calls'
  /\ \A id \in DOMAIN services \ DOMAIN services' :
       /\ "Delete" \in Calls'
       /\ id \notin DOMAIN osdb'
       /\ \E r \in Results' : r.op = "delete" /\ r.id = id /\ r.err = "ok"

\* C33: DeleteService on a service whose OS state is not stopped first sends
\* a stop control and waits for stopped, then issues the OS delete whatever
\* the stop came to; it goes to the delete directly only for a stopped
\* service, and the record leaves the registry only with a successful OS
\* delete.
C33_DeleteStopsFirst ==
  [][/\ \A p \in Procs :
          pc[p] = "idle" /\ pc'[p] = "d_del" => osdb[loc'[p].id].state = "Stopped"
     /\ DeleteGoesOn]_vars

(* ---------------------------------------------------------------------- *)
(* C34: the wrapper's configuration                                        *)
(* ---------------------------------------------------------------------- *)
\* the service name as text: fmt.Sprintf("WSM_%s_%d", cleanName, timestamp)
IdText(id) == <<"WSM_">> \o id.clean \o <<"_", ToString(id.ts)>>

\* LoadServiceConfigFromRegistry: ExePath must be there, Args and WorkingDir
\* default to "", DisplayName to the service name
LoadServiceConfigFromRegistry(id, params) ==
  IF "ExePath" \notin DOMAIN params
  THEN [err |-> "ReadError", config |-> NoCfg]
  ELSE [err |-> "ok",
        config |->
          [name |-> IF "DisplayName" \in DOMAIN params
                    THEN params["DisplayName"] ELSE IdText(id),
           exePath |-> params["ExePath"],
           args |-> IF "Args" \in DOMAIN params THEN params["Args"] ELSE "",
           workingDir |-> IF "WorkingDir" \in DOMAIN params
                          THEN params["WorkingDir"] ELSE <<>>]]

\* ids whose CreateService has returned success and whose OS entry is there
Wrapped == DOMAIN services \cap DOMAIN osdb

\* the wrapper would be given the target, its arguments and its directory
LoadsTarget(id) ==
  LET loaded == LoadServiceConfigFromRegistry(id, osdb[id].params) IN
    /\ loaded.err = "ok"
    /\ loaded.config.exePath = services[id].exePath
    /\ loaded.config.args = services[id].args
    /\ loaded.config.workingDir = services[id].workingDir

\* C34: after a successful CreateService the Parameters of the new id hold
\* ExePath, Args, WorkingDir and DisplayName with the values of the creation
\* input (the working directory after defaulting), and the configuration the
\* wrapper loads for the id equals name, exePath, args and workingDir of the
\* record.
C34_WrapperConfigMatches ==
  \A id \in Wrapped :
    LET params == osdb[id].params IN
      /\ {"ExePath", "Args", "WorkingDir", "DisplayName"} \subseteq DOMAIN params
      /\ params["ExePath"] = services[id].exePath
      /\ params["Args"] = services[id].args
      /\ params["WorkingDir"] = services[id].workingDir
      /\ params["DisplayName"] = services[id].name
      /\ LoadsTarget(id)
      /\ LoadServiceConfigFromRegistry(id, params).config.name = services[id].name

(* ---------------------------------------------------------------------- *)
(* Specification: two callers and the cache sweep, with the lock of the    *)
(* status cache taken and given back in steps of their own                 *)
(* ---------------------------------------------------------------------- *)
\* the goroutine of StartCleanupRoutine
Sweeper == "sweep"

\* cache.mutex.Lock needs no holder, cache.mutex.RLock no writer
CacheCanLock == cacheMutex.writer = NoProc /\ cacheMutex.readers = {}
CacheCanRLock == cacheMutex.writer = NoProc

HoldsCache(p) == cacheMutex.writer = p \/ p \in cacheMutex.readers

\* a cache method that returns without its deferred Unlock
CacheKeepLocked(m, p) == m

\* defer cache.mutex.Unlock() / RUnlock()
CacheUnlock(m, p) ==
  [m EXCEPT !.writer = IF @ = p THEN NoProc ELSE @, !.readers = @ \ {p}]

\* the wrapper and the history are left alone
OnlyLocks == UNCHANGED <<issued, stoppedOK, lastSet, osSince>> /\ NoSupervisor

\* a step that takes or gives back a lock of the cache and does nothing else
Quiet ==
  /\ returned' = <<>>
  /\ emitted' = <<>>
  /\ scmLog' = <<>>
  /\ UNCHANGED <<services, cache, snapshot, mutex, osdb, pc, loc, tasks,
                 savePending, now>>
  /\ OnlyLocks

\* cache.mutex.Lock() in Set, called by StartService and by StopService once
\* the service is stopped, and in Remove, called by DeleteService
CacheLock(p) ==
  /\ ~HoldsCache(p)
  /\ \/ pc[p] = "s_fin"
     \/ pc[p] = "d_del"
     \/ pc[p] = "t_wait" /\ osdb[loc[p].id].state = "Stopped"
  /\ CacheCanLock
  /\ cacheMutex' = [cacheMutex EXCEPT !.writer = p]
  /\ Quiet

\* StartService from the pid query on, Set inside
OrderStartFinish(p) ==
  /\ cacheMutex.writer = p
  /\ StartFinish(p, "none")
  /\ cacheMutex' = CacheUnlock(cacheMutex, p)
  /\ OnlyLocks

\* a pass of the wait of StopService: the last one with Set inside, the
\* others without the cache
OrderStopWait(p) ==
  /\ \/ /\ cacheMutex.writer = p
        /\ StopWait(p, "none")
        /\ cacheMutex' = CacheUnlock(cacheMutex, p)
     \/ /\ cacheMutex.writer # p
        /\ \E f \in {"none", "deadline"} : OnTime(p, f) /\ StopWait(p, f)
        /\ \A r \in Results' : r.err # "ok"
        /\ UNCHANGED cacheMutex
  /\ OnlyLocks

\* DeleteService from the OS delete on, Remove inside
OrderDeleteFinish(p) ==
  /\ cacheMutex.writer = p
  /\ DeleteFinish(p, "none")
  /\ cacheMutex' = CacheUnlock(cacheMutex, p)
  /\ OnlyLocks

\* getServiceRealTimeStatus: cache.mutex.RLock() in Get
GetRLock(p, id) ==
  /\ pc[p] = "g_iter"
  /\ id \in loc[p].todo
  /\ cacheMutex.visit[p] = NoId
  /\ CacheCanRLock
  /\ cacheMutex' = [cacheMutex EXCEPT !.readers = @ \cup {p}, !.visit[p] = id]
  /\ Quiet

\* Get finds a fresh entry: RUnlock, the cached status goes into the record
GetHit(p) ==
  /\ p \in cacheMutex.readers
  /\ CacheFound(cacheMutex.visit[p])
  /\ GetVisit(p, cacheMutex.visit[p], "none")
  /\ cacheMutex' = [CacheUnlock(cacheMutex, p) EXCEPT !.visit[p] = NoId]
  /\ OnlyLocks

\* Get finds nothing: RUnlock, the OS is to be asked
GetMissed(p) ==
  /\ p \in cacheMutex.readers
  /\ ~CacheFound(cacheMutex.visit[p])
  /\ cacheMutex' = CacheUnlock(cacheMutex, p)
  /\ Quiet

\* cache.mutex.Lock() in the Set that ends getServiceRealTimeStatus
SetLock(p) ==
  /\ cacheMutex.visit[p] # NoId
  /\ ~HoldsCache(p)
  /\ CacheCanLock
  /\ cacheMutex' = [cacheMutex EXCEPT !.writer = p]
  /\ Quiet

\* the rest of getServiceRealTimeStatus after a miss (OpenService, Query,
\* Set) and the writes of the loop of GetServices
GetVisitMiss(p, id) ==
  /\ pc[p] = "g_iter"
  /\ id \in loc[p].todo
  /\ LET st == IF id \notin DOMAIN osdb THEN QueryFailedStatus
               ELSE StatusOfState(osdb[id].state, osdb[id].pid)
     IN
       /\ cache' = CacheSet(cache, id, st.status, st.pid)
       /\ services' = [services EXCEPT ![id].status = st.status,
                                       ![id].pid = st.pid,
                                       ![id].updatedAt = now]
       /\ scmLog' = IF id \notin DOMAIN osdb THEN <<"OpenService!">>
                    ELSE <<"OpenService", "Query">>
  /\ loc' = [loc EXCEPT ![p].todo = @ \ {id}]
  /\ returned' = <<>>
  /\ emitted' = <<>>
  /\ UNCHANGED <<snapshot, mutex, osdb, pc, tasks, savePending, now>>

GetMissDone(p) ==
  /\ cacheMutex.writer = p
  /\ cacheMutex.visit[p] # NoId
  /\ GetVisitMiss(p, cacheMutex.visit[p])
  /\ cacheMutex' = [CacheUnlock(cacheMutex, p) EXCEPT !.visit[p] = NoId]
  /\ OnlyLocks

\* CleanExpired: cache.mutex.Lock()
SweepLock ==
  /\ CacheCanLock
  /\ cacheMutex' = [cacheMutex EXCEPT !.writer = Sweeper]
  /\ Quiet

\* CleanExpired: the loop over the entries, Unlock
SweepDone ==
  /\ cacheMutex.writer = Sweeper
  /\ cache' = [i \in {j \in DOMAIN cache : ~Expired(cache[j])} |-> cache[i]]
  /\ cacheMutex' = CacheUnlock(cacheMutex, Sweeper)
  /\ returned' = <<>>
  /\ emitted' = <<>>
  /\ scmLog' = <<>>
  /\ UNCHANGED <<services, snapshot, mutex, osdb, pc, loc, tasks, savePending,
                 now>>
  /\ OnlyLocks

OrderCreateScm == \E p \in Procs : CreateScm(p, "none") /\ NoHistory
OrderCreateWrap == \E p \in Procs : CreateWrap(p, "none") /\ NoHistory
OrderStartWait ==
  \E p \in AllProcs, f \in {"none", "deadline"} :
    OnTime(p, f) /\ StartWait(p, f) /\ NoHistory
OrderDeleteWait ==
  \E p \in Procs, f \in {"none", "deadline"} :
    OnTime(p, f) /\ DeleteWait(p, f) /\ NoHistory
OrderGetReturn == \E p \in Procs : GetReturn(p) /\ NoHistory
OrderCacheLock == \E p \in AllProcs : CacheLock(p)
OrderFinish ==
  \E p \in AllProcs : OrderStartFinish(p) \/ OrderStopWait(p) \/ OrderDeleteFinish(p)
OrderGetRLock == \E p \in Procs, id \in DOMAIN services : GetRLock(p, id)
OrderGetLooked == \E p \in Procs : GetHit(p) \/ GetMissed(p)
OrderSetLock == \E p \in Procs : SetLock(p)
OrderGetMissDone == \E p \in Procs : GetMissDone(p)

OrderNext ==
  \/ \E p \in Procs, cfg \in LiveConfigs : Room /\ CreateCall(p, cfg) /\ NoHistory
  \/ OrderCreateScm
  \/ OrderCreateWrap
  \/ \E p \in Procs, id \in CallIds : StartCall(p, id, "none") /\ NoHistory
  \/ \E id \in tasks : AutoStart(id, "none") /\ NoHistory
  \/ OrderStartWait
  \/ \E p \in Procs, id \in CallIds : StopCall(p, id, "none") /\ NoHistory
  \/ \E p \in Procs, id \in CallIds : DeleteCall(p, id, "none") /\ NoHistory
  \/ OrderDeleteWait
  \/ \E p \in Procs : GetCall(p, "none") /\ NoHistory
  \/ OrderGetReturn
  \/ OrderCacheLock
  \/ OrderFinish
  \/ OrderGetRLock
  \/ OrderGetLooked
  \/ OrderSetLock
  \/ OrderGetMissDone
  \/ SweepLock
  \/ SweepDone
  \/ OSStepOwn /\ NoHistory

\* a goroutine inside an operation goes on; sync.Mutex and sync.RWMutex hand
\* the lock to every waiter in the end, so a waiter is not passed over for ever
OrderFairness ==
  /\ WF_vars(OrderCreateScm)
  /\ WF_vars(OrderCreateWrap)
  /\ WF_vars(OrderStartWait)
  /\ WF_vars(OrderDeleteWait)
  /\ WF_vars(OrderFinish)
  /\ WF_vars(SweepDone)
  /\ \A p \in Procs : WF_vars(GetReturn(p) /\ NoHistory)
  /\ \A p \in Procs : WF_vars(GetHit(p) \/ GetMissed(p))
  /\ \A p \in Procs : WF_vars(GetMissDone(p))
  /\ \A p \in AllProcs : SF_vars(CacheLock(p))
  /\ \A p \in Procs : SF_vars(\E id \in DOMAIN services : GetRLock(p, id))
  /\ \A p \in Procs : SF_vars(SetLock(p))

OrderSpec == Init /\ [][OrderNext]_vars /\ OrderFairness

(* ---------------------------------------------------------------------- *)
(* C35: no deadlock between the registry lock and the cache lock           *)
(* ---------------------------------------------------------------------- *)
HoldsRegistry(p) == mutex.writer = p \/ p \in mutex.readers

\* C35: the manager never deadlocks. A goroutine holds the lock of the cache
\* only inside the registry lock it took before, the sweep holds the lock of
\* the cache and never the registry lock, and with two callers, the
\* auto-start and the sweep running every goroutine that holds a lock gives
\* it back.
C35_NoDeadlock ==
  /\ [](\A p \in AllProcs : HoldsCache(p) => HoldsRegistry(p))
  /\ [](~HoldsRegistry(Sweeper))
  /\ \A p \in AllProcs \cup {Sweeper} :
       (HoldsRegistry(p) \/ HoldsCache(p)) ~> ~(HoldsRegistry(p) \/ HoldsCache(p))

\* a caller inside GetServices is waiting for the lock of the cache, which
\* the sweep holds, while the other caller is inside GetServices too
C35_Witness ==
  /\ cacheMutex.writer = Sweeper
  /\ \E p \in Procs :
       /\ cacheMutex.visit[p] # NoId
       /\ ~HoldsCache(p)
       /\ \E q \in Procs \ {p} : pc[q] = "g_iter"

(* ---------------------------------------------------------------------- *)
(* C36: a successful start leaves running and the process id               *)
(* ---------------------------------------------------------------------- *)
\* C36: whenever StartService returns success, the record and the status
\* cache both hold status running with a pid that is not zero and is the
\* process id the OS reports for the running service, also when the state of
\* the service changes, or the query fails, between the end of the wait and
\* the query for the pid.
C36_StartedHasPid ==
  [][\A r \in Results' :
       r.op = "start" /\ r.err = "ok" =>
         /\ services'[r.id].status = "running"
         /\ services'[r.id].pid # 0
         /\ r.id \in DOMAIN cache'
         /\ cache'[r.id].status = "running"
         /\ cache'[r.id].pid = services'[r.id].pid
         /\ r.id \in DOMAIN osdb'
         /\ osdb'[r.id].state = "Running"
         /\ osdb'[r.id].pid = services'[r.id].pid]_vars

StoppedAt == {i \in DOMAIN statuses : statuses[i].state = "Stopped"}

\* C38: however a stop or shutdown request, the exit of the target and the
\* monitor goroutine interleave, Execute reports Stopped exactly once, as its
\* last status, returns with it, and never reports it while the process it
\* spawned is alive.
C38_StoppedOnceAndLast ==
  /\ Cardinality(StoppedAt) <= 1
  /\ StoppedAt # {} <=> execute.pc = "done"
  /\ StoppedAt # {} =>
       /\ StoppedAt = {Len(statuses)}
       /\ ~statuses[Len(statuses)].echo
       /\ esw.process # "alive"

\* a stop request met a target that had exited by itself and whose exit the
\* monitor had noticed; Execute has returned
C38_Witness ==
  /\ execute.pc = "done"
  /\ esw.process = "exited"
  /\ monitor = "done"
  /\ \E i \in DOMAIN delivered : delivered[i] \in {"Stop", "Shutdown"}
  /\ StoppedAt = {Len(statuses)}
  /\ Len(statuses) >= 4

(* ---------------------------------------------------------------------- *)
(* Specification: one caller creating, starting, stopping and listing, and *)
(* the clock, with the age of every OS state                               *)
(* ---------------------------------------------------------------------- *)
\* the clock moves by a second or by a whole time-to-live
StaleTickSteps == {1, TTL}

\* the history of the OS states: zero when the state or the pid of a service
\* changes in the step, else older by the time the step takes
Aging ==
  /\ osSince' = [id \in DOMAIN osdb' |->
                   IF /\ id \in DOMAIN osdb
                      /\ osdb'[id].state = osdb[id].state
                      /\ osdb'[id].pid = osdb[id].pid
                   THEN Min(osSince[id] + (now' - now), TTL + 1)
                   ELSE 0]
  /\ UNCHANGED <<issued, stoppedOK, lastSet>>
  /\ NoSupervisor
  /\ NoCacheLock

StaleNext ==
  \/ \E cfg \in LiveConfigs : Room /\ CreateCall(Caller, cfg) /\ Aging
  \/ CreateScm(Caller, "none") /\ Aging
  \/ CreateWrap(Caller, "none") /\ Aging
  \/ \E id \in CallIds : StartCall(Caller, id, "none") /\ Aging
  \/ \E id \in tasks : AutoStart(id, "none") /\ Aging
  \/ \E p \in AllProcs : StartWait(p, "none") /\ Aging
  \/ \E p \in AllProcs : StartFinish(p, "none") /\ Aging
  \/ \E id \in CallIds : StopCall(Caller, id, "none") /\ Aging
  \/ StopWait(Caller, "none") /\ Aging
  \/ GetCall(Caller, "none") /\ Aging
  \/ \E id \in DOMAIN services : GetVisit(Caller, id, "none") /\ Aging
  \/ GetReturn(Caller) /\ Aging
  \/ OSStepOwn /\ Aging
  \/ \E d \in StaleTickSteps : Tick(d) /\ Aging

StaleSpec == Init /\ [][StaleNext]_vars

(* ---------------------------------------------------------------------- *)
(* C39: how stale the list can be                                          *)
(* ---------------------------------------------------------------------- *)
\* the services whose status this step of GetServices has written
Visited(p) == IF pc[p] = "g_iter" THEN loc[p].todo \ loc'[p].todo ELSE {}

\* what the OS holds for the service, as getServiceRealTimeStatus renders it
OSStatus(id) == StatusOfState(osdb[id].state, osdb[id].pid)

\* what the step has put into the record
Got(id) == [status |-> services'[id].status, pid |-> services'[id].pid]

\* the cache holds an entry for the service written at most a time-to-live ago
FreshEntry(id) == id \in DOMAIN cache /\ cache[id].age <= TTL

\* where a status of GetServices comes from: a query of this call, which
\* refreshes the cache, or an entry at most a time-to-live old; and a query
\* is made when there is no such entry
FromQueryOrFreshEntry ==
  \A p \in Procs : \A id \in Visited(p) \cap DOMAIN osdb :
    /\ IF "Query" \in Calls'
       THEN /\ Got(id) = OSStatus(id)
            /\ cache'[id] = [status |-> Got(id).status, pid |-> Got(id).pid, age |-> 0]
       ELSE /\ FreshEntry(id)
            /\ Got(id) = [status |-> cache[id].status, pid |-> cache[id].pid]
            /\ cache' = cache
    /\ ~FreshEntry(id) => "Query" \in Calls'

\* C39: every status and pid GetServices returns comes from an OS query made
\* in that call or from a cache entry written at most the time-to-live of 5
\* seconds before, a missing or expired entry makes it query and refresh the
\* cache, and so a state the OS has held unchanged for more than a
\* time-to-live is the one GetServices returns.
C39_BoundedStaleness ==
  [][/\ FromQueryOrFreshEntry
     /\ \A p \in Procs : \A id \in Visited(p) \cap DOMAIN osdb :
          osSince[id] > TTL => Got(id) = OSStatus(id)]_vars

====
